---- MODULE Spec2Model ----
(***************************************************************************)
(* Verification model of the flash-loan arbitrage engine.                  *)
(*                                                                         *)
(*   PriceService      src/unnamed/part_006   (quote cache, rate limiter)   *)
(*   ArbitrageService  src/unnamed/part_007   (evaluation / execution loop) *)
(*   ArbitrageBot      src/bot/src/index.js   (supervisor)                  *)
(*                                                                         *)
(* Time.  Every clock field of the program (lastRequestTime,               *)
(* requestResetTime, a cache entry's timestamp, lastExecutionTime) is only *)
(* ever read as a distance from Date.now().  The model therefore keeps     *)
(* each of them as that distance (its "age"), advanced by the Tick actions *)
(* and saturated at the first value beyond which every comparison the code *)
(* makes has the same outcome.  A pending setTimeout is kept as the time   *)
(* left until it fires; a timer fires when that reaches 0.                 *)
(***************************************************************************)
EXTENDS Integers, Sequences, FiniteSets, TLC

VARIABLES
    \* ---- PriceService ----------------------------------------------------
    priceCache,        \* this.priceCache: key -> NoEntry or [price, age]
    lastRequestAge,    \* Date.now() - this.lastRequestTime   (saturated)
    requestCount,      \* this.requestCount
    requestResetAge,   \* Date.now() - this.requestResetTime  (saturated)
    req,               \* the quote requests in flight, one per slot
    diff,              \* the getPriceDifference call in flight and its result
    \* ---- direct callers of PriceService.rateLimit ------------------------
    caller,            \* the rateLimit calls in flight, one per caller
    sinceRelease,      \* time since rateLimit last let a call proceed
    lastGap,           \* time between the two most recent calls let proceed
    \* ---- ArbitrageService: evaluation ------------------------------------
    find,              \* the findArbitrageOpportunity call in flight, its result
    cycle,             \* the loop iteration in flight and how the last one ended
    stats,             \* ArbitrageService.stats
    liquidityDue,      \* Date.now() - lastLiquidityCheck is past its interval
    gasQuotes,         \* the gas figures of the last two executeArbitrage calls
    \* ---- ArbitrageService: execution loop --------------------------------
    isRunning,         \* this.isRunning
    starting,          \* a start() call is awaiting performInitialChecks()
    loop,              \* the live monitorArbitrageOpportunities() calls
    sinceExec,         \* Date.now() - this.lastExecutionTime  (saturated)
    blocks,            \* which lastBlockNumber is the chain's newest block
    \* ---- ArbitrageBot: supervisor ----------------------------------------
    consecutiveErrors, \* this.stats.consecutiveErrors
    botPc,             \* "running", or "restarting" inside restart()
    healthFailStreak,  \* failed health re-checks since the last healthy one
    healthMonitors,    \* health intervals registered by startMonitoringLoops
    startup,           \* performHealthChecks: checks run, failedChecks, the owner
    app,               \* BotService (desktop app): isRunning, owner, botStats
    \* ---- GasService ------------------------------------------------------
    classified,        \* the last two getGasPriceLevel calls: prices and levels
    gasPriceCache,     \* this.gasPriceCache: [current, age]
    gasPriceHistory,   \* this.gasPriceHistory: the prices, oldest first
    advice             \* what getGasPriceRecommendation returned, if it just ran

limiterVars == <<lastRequestAge, requestCount, requestResetAge>>

quoteVars == <<priceCache, req, diff>>

callerVars == <<caller, sinceRelease, lastGap>>

priceServiceVars == <<limiterVars, quoteVars, callerVars>>

calcVars == <<find, cycle, stats, liquidityDue, gasQuotes>>

coordVars == <<isRunning, starting, loop, sinceExec, blocks>>

supervisorVars ==
    <<consecutiveErrors, botPc, healthFailStreak, healthMonitors, startup, app>>

gasMonitorVars == <<gasPriceCache, gasPriceHistory, advice>>

gasVars == <<classified, gasMonitorVars>>

\* The two services the engine and the supervisor call.
serviceVars == <<priceServiceVars, gasVars>>

\* Everything PriceService does not own.
beyondCycle ==
    <<liquidityDue, gasQuotes, serviceVars, coordVars, supervisorVars>>

\* Everything but the evaluation state and the gas figures.
beyondCycleGas == <<liquidityDue, serviceVars, coordVars, supervisorVars>>

outsidePrice == <<calcVars, coordVars, supervisorVars, gasVars>>

vars == <<priceServiceVars, calcVars, coordVars, supervisorVars, gasVars>>

Min(a, b) == IF a < b THEN a ELSE b

Max(a, b) == IF a > b THEN a ELSE b

(***************************************************************************)
(* PriceService: configuration                                             *)
(***************************************************************************)

\* config.monitoring.maxApiRequestsPerMinute: 80 in the shipped
\* configuration, scaled down here (the limiter only compares requestCount
\* with it and divides the window by it).
maxApiRequestsPerMinute == 2

\* this.minRequestInterval = 60000 / maxApiRequestsPerMinute, in clock ticks:
\* one tick of the model is one minRequestInterval.
minRequestInterval == 1

\* The 60000 ms counting window in clock ticks: 60000 = max * interval.
Window == maxApiRequestsPerMinute * minRequestInterval

\* this.cacheTTL (config.monitoring.priceCacheTTL) in clock ticks, scaled down.
cacheTTL == 2

\* Largest output amount a router returns in the model.
MaxQuote == 1

Quotes == 0 .. MaxQuote

\* A missing argument (undefined / null / "").
Undefined == "undefined"

\* The (tokenIn, tokenOut) arguments the callers pass: the configured pair,
\* one address twice (spelled alike, and spelled in two letter cases), and a
\* missing argument.
TokenPairs ==
    {<<"0xAb", "0xCd">>, <<"0xAb", "0xab">>, <<"0xCd", "0xCd">>,
     <<Undefined, "0xCd">>}

\* A variant of ToLowerCase: the addresses are compared as spelled.
AsSpelled(t) == t

\* String.prototype.toLowerCase on the addresses above.
ToLowerCase(t) == IF t = "0xAb" THEN "0xab" ELSE t

Dexes == {"uni", "sushi"}

\* One request slot per exchange: at most one Uniswap quote and one Sushiswap
\* quote are in flight at a time (as in getPriceDifference).
Slots == {1, 2}

SlotOf(dex) == IF dex = "uni" THEN 1 ELSE 2

\* Concurrent direct callers of rateLimit.
Callers == {1, 2}

NoEntry == [price |-> -1, age |-> -1]

NoPrice == -1

\* `${dex}_${tokenIn}_${tokenOut}_${amountIn || "default"}` with amountIn = null
CacheKey(dex, tokenIn, tokenOut) == <<dex, tokenIn, tokenOut, "default">>

CacheKeys ==
    {CacheKey(d, p[1], p[2]) : d \in Dexes, p \in {q \in TokenPairs :
        q[1] # Undefined /\ q[2] # Undefined /\ ToLowerCase(q[1]) # ToLowerCase(q[2])}}

\* Saturation points of the limiter's ages.
LastCap == Window + minRequestInterval

ResetCap == Window + 1

(***************************************************************************)
(* PriceService: cache                                                     *)
(***************************************************************************)

\* A variant of getCachedPrice: an entry exactly cacheTTL old still counts.
getCachedPriceInclusive(cache, key) ==
    IF cache[key] # NoEntry /\ cache[key].age <= cacheTTL
    THEN cache[key].price
    ELSE NoPrice

\* getCachedPrice(key): the cached price, or NoPrice for null.
getCachedPrice(cache, key) ==
    IF cache[key] # NoEntry /\ cache[key].age < cacheTTL
    THEN cache[key].price
    ELSE NoPrice

\* cachePrice(key, price): the entry is stamped Date.now(), i.e. age 0.
cachePrice(cache, key, price) ==
    [cache EXCEPT ![key] = [price |-> price, age |-> 0]]

(***************************************************************************)
(* PriceService: rateLimit                                                 *)
(*                                                                         *)
(* rl is the limiter's state [last, count, reset]; elapsed is the time     *)
(* since the call read `now` at its entry.  Each operator runs the code to *)
(* its next await and returns the new limiter state with the place where   *)
(* the call is suspended ("pass" when rateLimit has returned).             *)
(***************************************************************************)

RL == [last |-> lastRequestAge, count |-> requestCount, reset |-> requestResetAge]

SetRL(rl) ==
    /\ lastRequestAge' = rl.last
    /\ requestCount' = rl.count
    /\ requestResetAge' = rl.reset

\* lines 252-253: this.lastRequestTime = now; this.requestCount++
rateLimitFinish(rl, elapsed) ==
    [rl |-> [rl EXCEPT !.last = Min(elapsed, LastCap), !.count = @ + 1],
     pc |-> "pass", timer |-> 0]

\* lines 244-250: timeSinceLastRequest = now - lastRequestTime, with the `now`
\* read at entry.
rateLimitInterval(rl, elapsed) ==
    LET timeSinceLastRequest == rl.last - elapsed
    IN  IF timeSinceLastRequest < minRequestInterval
        THEN [rl |-> rl, pc |-> "waitInterval",
              timer |-> minRequestInterval - timeSinceLastRequest]
        ELSE rateLimitFinish(rl, elapsed)

\* lines 225-242, up to the first await.
rateLimitEnter(rl) ==
    LET r1 == IF rl.reset > Window
              THEN [rl EXCEPT !.count = 0, !.reset = 0]
              ELSE rl
    IN  IF r1.count >= maxApiRequestsPerMinute
        THEN [rl |-> r1, pc |-> "waitWindow", timer |-> Window - r1.reset]
        ELSE rateLimitInterval(r1, 0)

\* A variant of rateLimitAfterWindow: the budget is checked again after the wait
\* without the counter having been reset.
rateLimitAfterWindowNoReset(rl, elapsed) ==
    IF rl.count >= maxApiRequestsPerMinute
    THEN [rl |-> rl, pc |-> "waitWindow", timer |-> 0]
    ELSE rateLimitInterval(rl, elapsed)

\* lines 240-241 after the window wait, then on to the interval check.
rateLimitAfterWindow(rl, elapsed) ==
    rateLimitInterval([rl EXCEPT !.count = 0, !.reset = 0], elapsed)

Waiting(r) == r.pc \in {"waitWindow", "waitInterval"}

(***************************************************************************)
(* PriceService: getUniswapPrice / getSushiswapPrice                       *)
(***************************************************************************)

IdleReq ==
    [pc |-> "idle", dex |-> "none", tokenIn |-> "none", tokenOut |-> "none",
     elapsed |-> 0, timer |-> 0, queried |-> FALSE,
     outcome |-> "none", price |-> NoPrice]

NoDiff ==
    [status |-> "none", tokenIn |-> "none", tokenOut |-> "none",
     uniswapPrice |-> NoPrice, sushiswapPrice |-> NoPrice,
     difference |-> NoPrice, percentageBps |-> NoPrice,
     betterDEX |-> "none", error |-> "none"]

\* The request finished: outcome is "cached", "fresh" or the error thrown.
Done(r, outcome, price) ==
    [r EXCEPT !.pc = "done", !.elapsed = 0, !.timer = 0,
              !.outcome = outcome, !.price = price]

\* lines 64-71: after rateLimit has returned, look the key up and either
\* return the cached price or send getAmountsOut to the router.
afterRateLimit(r, cache) ==
    LET cached == getCachedPrice(cache, CacheKey(r.dex, r.tokenIn, r.tokenOut))
    IN  IF cached # NoPrice
        THEN Done(r, "cached", cached)
        ELSE [r EXCEPT !.pc = "query", !.elapsed = 0, !.timer = 0,
                       !.queried = TRUE]

\* Request r goes on from a rateLimit step b.
continueRequest(r, b, elapsed, cache) ==
    IF b.pc = "pass"
    THEN afterRateLimit(r, cache)
    ELSE [r EXCEPT !.pc = b.pc, !.timer = b.timer, !.elapsed = elapsed]

\* lines 51-71 / 92-112: a call, run to its first suspension.
startRequest(rl, cache, dex, tokenIn, tokenOut) ==
    LET r0 == [IdleReq EXCEPT !.dex = dex, !.tokenIn = tokenIn,
                              !.tokenOut = tokenOut]
    IN  IF tokenIn = Undefined \/ tokenOut = Undefined
        THEN [rl |-> rl, req |-> Done(r0, "UndefinedToken", NoPrice)]
        ELSE IF ToLowerCase(tokenIn) = ToLowerCase(tokenOut)
        THEN [rl |-> rl, req |-> Done(r0, "IdenticalTokens", NoPrice)]
        ELSE LET b == rateLimitEnter(rl)
             IN  [rl |-> b.rl, req |-> continueRequest(r0, b, 0, cache)]

\* The callers of the quote specification issue quotes one at a time, or two
\* together through getPriceDifference.
Quiet ==
    /\ \A s \in Slots : req[s].pc \in {"idle", "done"}
    /\ diff.status # "pending"

GetPrice(dex, tokenIn, tokenOut) ==
    /\ Quiet
    /\ LET st == startRequest(RL, priceCache, dex, tokenIn, tokenOut)
       IN  /\ SetRL(st.rl)
           /\ req' = [req EXCEPT ![SlotOf(dex)] = st.req]
    /\ diff' = NoDiff
    /\ UNCHANGED <<priceCache, callerVars, outsidePrice>>

getUniswapPrice ==
    \E p \in TokenPairs : GetPrice("uni", p[1], p[2])

getSushiswapPrice ==
    \E p \in TokenPairs : GetPrice("sushi", p[1], p[2])

\* line 239: the window timer of a suspended rateLimit fires.
WakeWindow ==
    \E s \in Slots :
        /\ req[s].pc = "waitWindow"
        /\ req[s].timer = 0
        /\ LET b == rateLimitAfterWindow(RL, req[s].elapsed)
           IN  /\ SetRL(b.rl)
               /\ req' = [req EXCEPT
                      ![s] = continueRequest(req[s], b, req[s].elapsed, priceCache)]
        /\ UNCHANGED <<priceCache, diff, callerVars, outsidePrice>>

\* lines 247-249: the interval timer of a suspended rateLimit fires.
WakeInterval ==
    \E s \in Slots :
        /\ req[s].pc = "waitInterval"
        /\ req[s].timer = 0
        /\ LET b == rateLimitFinish(RL, req[s].elapsed)
           IN  /\ SetRL(b.rl)
               /\ req' = [req EXCEPT
                      ![s] = continueRequest(req[s], b, req[s].elapsed, priceCache)]
        /\ UNCHANGED <<priceCache, diff, callerVars, outsidePrice>>

\* lines 71-82: getAmountsOut resolves with amounts[1] = price.
RouterReply ==
    \E s \in Slots, price \in Quotes :
        /\ req[s].pc = "query"
        /\ priceCache' = cachePrice(priceCache,
               CacheKey(req[s].dex, req[s].tokenIn, req[s].tokenOut), price)
        /\ req' = [req EXCEPT ![s] = Done(req[s], "fresh", price)]
        /\ UNCHANGED <<limiterVars, diff, callerVars, outsidePrice>>

\* A variant of RouterFail: the failure is swallowed into a cached zero quote.
RouterFailCachesZero ==
    \E s \in Slots :
        /\ req[s].pc = "query"
        /\ priceCache' = cachePrice(priceCache,
               CacheKey(req[s].dex, req[s].tokenIn, req[s].tokenOut), 0)
        /\ req' = [req EXCEPT ![s] = Done(req[s], "RouterError", NoPrice)]
        /\ UNCHANGED <<limiterVars, diff, callerVars, outsidePrice>>

\* lines 83-89: getAmountsOut rejects; the error is logged and rethrown.
RouterFail ==
    \E s \in Slots :
        /\ req[s].pc = "query"
        /\ req' = [req EXCEPT ![s] = Done(req[s], "RouterError", NoPrice)]
        /\ UNCHANGED <<priceCache, limiterVars, diff, callerVars, outsidePrice>>

\* clearCache()
clearCache ==
    /\ priceCache' = [k \in CacheKeys |-> NoEntry]
    /\ UNCHANGED <<limiterVars, req, diff, callerVars, outsidePrice>>

(***************************************************************************)
(* PriceService: getPriceDifference                                        *)
(***************************************************************************)

IsError(outcome) ==
    outcome \in {"UndefinedToken", "IdenticalTokens", "RouterError"}

\* lines 135-138: Promise.all starts the Uniswap call, then the Sushiswap
\* call, each run to its first suspension.
getPriceDifference ==
    \E p \in TokenPairs :
        /\ Quiet
        /\ LET s1 == startRequest(RL, priceCache, "uni", p[1], p[2])
               s2 == startRequest(s1.rl, priceCache, "sushi", p[1], p[2])
           IN  /\ SetRL(s2.rl)
               /\ req' = [req EXCEPT ![1] = s1.req, ![2] = s2.req]
        /\ diff' = [NoDiff EXCEPT !.status = "pending",
                                  !.tokenIn = p[1], !.tokenOut = p[2]]
        /\ UNCHANGED <<priceCache, callerVars, outsidePrice>>

\* lines 140-154 on the two quotes.  BigNumber.div throws on a zero divisor.
\* percentageBps is `percentage` before line 152 divides it by 100.
priceDifference(d, uniPrice, sushiPrice) ==
    LET gt == uniPrice > sushiPrice
        difference == IF gt THEN uniPrice - sushiPrice ELSE sushiPrice - uniPrice
        divisor == IF gt THEN uniPrice ELSE sushiPrice
    IN  IF divisor = 0
        THEN [d EXCEPT !.status = "error", !.error = "DivisionByZero"]
        ELSE [d EXCEPT !.status = "ok",
                       !.uniswapPrice = uniPrice,
                       !.sushiswapPrice = sushiPrice,
                       !.difference = difference,
                       !.percentageBps = (difference * 10000) \div divisor,
                       !.betterDEX = IF gt THEN "uniswap" ELSE "sushiswap"]

\* Promise.all settles: rejected with the first rejection, else resolved
\* once both quotes are in.
PriceDifferenceReturn ==
    /\ diff.status = "pending"
    /\ \/ \E s \in Slots :
             /\ req[s].pc = "done" /\ IsError(req[s].outcome)
             /\ diff' = [diff EXCEPT !.status = "error", !.error = req[s].outcome]
       \/ /\ \A s \in Slots : req[s].pc = "done" /\ ~IsError(req[s].outcome)
          /\ diff' = priceDifference(diff, req[1].price, req[2].price)
    /\ UNCHANGED <<priceCache, limiterVars, req, callerVars, outsidePrice>>

\* The clock advances one tick.  The record of a finished call is dropped.
TickPrice ==
    /\ \A s \in Slots : Waiting(req[s]) => req[s].timer > 0
    /\ lastRequestAge' = Min(lastRequestAge + 1, LastCap)
    /\ requestResetAge' = Min(requestResetAge + 1, ResetCap)
    /\ priceCache' = [k \in CacheKeys |->
          IF priceCache[k] = NoEntry THEN NoEntry
          ELSE [priceCache[k] EXCEPT !.age = Min(@ + 1, cacheTTL)]]
    /\ req' = [s \in Slots |->
          IF Waiting(req[s])
          THEN [req[s] EXCEPT !.timer = @ - 1, !.elapsed = @ + 1]
          ELSE IF req[s].pc = "done" /\ diff.status # "pending"
          THEN IdleReq
          ELSE req[s]]
    /\ diff' = IF diff.status = "pending" THEN diff ELSE NoDiff
    /\ UNCHANGED <<requestCount, callerVars, outsidePrice>>

IdleCaller == [pc |-> "idle", timer |-> 0, elapsed |-> 0, waited |-> FALSE]

\* The PriceService constructor, lines 39-48.
InitPrice ==
    /\ priceCache = [k \in CacheKeys |-> NoEntry]
    /\ lastRequestAge = LastCap       \* this.lastRequestTime = 0
    /\ requestCount = 0
    /\ requestResetAge = 0            \* this.requestResetTime = Date.now()
    /\ req = [s \in Slots |-> IdleReq]
    /\ diff = NoDiff
    /\ caller = [c \in Callers |-> IdleCaller]
    /\ sinceRelease = minRequestInterval
    /\ lastGap = minRequestInterval

NextPrice ==
    \/ getUniswapPrice
    \/ getSushiswapPrice
    \/ getPriceDifference
    \/ WakeWindow
    \/ WakeInterval
    \/ RouterReply
    \/ RouterFail
    \/ PriceDifferenceReturn
    \/ clearCache
    \/ TickPrice

(***************************************************************************)
(* PriceService.rateLimit called directly by concurrent callers            *)
(***************************************************************************)

\* Caller c goes on from a rateLimit step b; a call that rateLimit lets
\* proceed is recorded in sinceRelease / lastGap.
\* (waited: whether the call has been suspended for the window to end.)
callerStep(c, b, elapsed, waited) ==
    /\ SetRL(b.rl)
    /\ IF b.pc = "pass"
       THEN /\ caller' = [caller EXCEPT
                   ![c] = [IdleCaller EXCEPT !.pc = "returned", !.waited = waited]]
            /\ lastGap' = sinceRelease
            /\ sinceRelease' = 0
       ELSE /\ caller' = [caller EXCEPT
                   ![c] = [pc |-> b.pc, timer |-> b.timer, elapsed |-> elapsed,
                           waited |-> waited \/ b.pc = "waitWindow"]]
            /\ UNCHANGED <<sinceRelease, lastGap>>
    /\ UNCHANGED <<quoteVars, outsidePrice>>

\* rateLimit(), lines 224-254, run to its first await.
rateLimit ==
    \E c \in Callers :
        /\ caller[c].pc \in {"idle", "returned"}
        /\ callerStep(c, rateLimitEnter(RL), 0, FALSE)

\* line 239: the window timer fires.
rateLimitWindowTimer ==
    \E c \in Callers :
        /\ caller[c].pc = "waitWindow"
        /\ caller[c].timer = 0
        /\ callerStep(c, rateLimitAfterWindow(RL, caller[c].elapsed),
                      caller[c].elapsed, caller[c].waited)

\* lines 247-249: the interval timer fires.
rateLimitIntervalTimer ==
    \E c \in Callers :
        /\ caller[c].pc = "waitInterval"
        /\ caller[c].timer = 0
        /\ callerStep(c, rateLimitFinish(RL, caller[c].elapsed),
                      caller[c].elapsed, caller[c].waited)

\* The clock advances one tick.
TickRate ==
    /\ \A c \in Callers : Waiting(caller[c]) => caller[c].timer > 0
    /\ lastRequestAge' = Min(lastRequestAge + 1, LastCap)
    /\ requestResetAge' = Min(requestResetAge + 1, ResetCap)
    /\ sinceRelease' = Min(sinceRelease + 1, minRequestInterval)
    /\ caller' = [c \in Callers |->
          IF Waiting(caller[c])
          THEN [caller[c] EXCEPT !.timer = @ - 1, !.elapsed = @ + 1]
          ELSE IdleCaller]
    /\ UNCHANGED <<requestCount, lastGap, quoteVars, outsidePrice>>

NextRate ==
    \/ rateLimit
    \/ rateLimitWindowTimer
    \/ rateLimitIntervalTimer
    \/ TickRate

(***************************************************************************)
(* ArbitrageService: evaluating one pair (src/unnamed/part_007, 360-471)   *)
(*                                                                         *)
(* Amounts are BigNumbers in the program; the model counts them in units   *)
(* of 10^14 wei, so that flashLoanAmount = 5 ETH is 50000 and the 5 bps    *)
(* fee on it, 0.0025 ETH, is 25.                                           *)
(***************************************************************************)

\* config.arbitrage.flashLoanAmount: the configured 5 ETH, and two small
\* amounts on either side of the first amount with a non-zero 5 bps fee.
FlashLoanAmounts == {1999, 2000, 50000}

\* What a router's getAmountsOut may answer for the first swap ...
FirstSwapOutputs == {0, 3}

\* ... and for the second swap, back into the borrowed token.
SecondSwapOutputs ==
    {0, 1999, 2000, 2001, 2002, 50000, 50025, 50026, 50055, 50056, 51000}

Directions == <<"UNI_TO_SUSHI", "SUSHI_TO_UNI">>

DirIndex == {1, 2}

\* BigNumber.div rounds toward zero.
TruncDiv(a, b) == IF a >= 0 THEN a \div b ELSE -((-a) \div b)

\* The fee of the legacy bot (src/bot/arbitrage-bot.js line 125): 9 bps.
flashLoanFeeLegacy(flashLoanAmount) == (flashLoanAmount * 9) \div 10000

\* line 433: flashLoanAmount.mul(5).div(10000)
flashLoanFee(flashLoanAmount) == (flashLoanAmount * 5) \div 10000

NoOpportunity ==
    [direction |-> "none", flashLoanAmount |-> 0, profit |-> 0,
     totalCost |-> 0, roiBps |-> 0]

\* calculateArbitrage, lines 458-470, once both swaps are quoted.
calculateArbitrage(flashLoanAmount, direction, amountAfterSecondSwap) ==
    LET totalCost == flashLoanAmount + flashLoanFee(flashLoanAmount)
        profit == amountAfterSecondSwap - totalCost
    IN  [direction |-> direction,
         flashLoanAmount |-> flashLoanAmount,
         profit |-> profit,
         totalCost |-> totalCost,
         roiBps |-> TruncDiv(profit * 10000, flashLoanAmount)]

\* A reducer that lets the later of two equal profits win.
selectBestOrEqual(best, current) ==
    IF current.profit >= best.profit THEN current ELSE best

\* lines 404-406, the reducer: current.profit.gt(best.profit) ? current : best
selectBest(best, current) ==
    IF current.profit > best.profit THEN current ELSE best

RECURSIVE reduceFrom(_, _, _)
\* Array.prototype.reduce without an initial value: the first element is the
\* first accumulator.
reduceFrom(opportunities, i, best) ==
    IF i > Len(opportunities)
    THEN best
    ELSE reduceFrom(opportunities, i + 1, selectBest(best, opportunities[i]))

bestOpportunity(opportunities) == reduceFrom(opportunities, 2, opportunities[1])

\* A test that takes a profit of zero for an opportunity.
actionableOrZero(best) == best.profit >= 0

\* line 413: bestOpportunity.profit.gt(0)
actionable(best) == best.profit > 0

\* How many receipts the model lets one run count; no pair is evaluated
\* once that many are counted.
MaxExecutions == 1

IdleDirection ==
    [pc |-> "idle", amountAfterFirstSwap |-> -1,
     amountAfterSecondSwap |-> -1, opportunity |-> NoOpportunity]

IdleFind ==
    [pc |-> "idle", flashLoanAmount |-> 0,
     dir |-> [d \in DirIndex |-> IdleDirection],
     best |-> NoOpportunity, result |-> "none"]

NoGate == [name |-> "none", reading |-> 0]

\* checkAllPairs has no iteration in flight.  gate is the check of the loop
\* that ran last in this iteration, and what it read.
IdleCycle ==
    [pc |-> "idle", outcome |-> "none", gate |-> NoGate,
     validatedAt |-> NoPrice, quotedAt |-> NoPrice, gasEstimate |-> 0,
     sentAt |-> NoPrice]

\* checkAllPairs, line 297, and findArbitrageOpportunity, lines 360-379: the pair is valid (the
\* constructor keeps no other) and both quotes are requested.
findArbitrageOpportunity ==
    /\ find.pc \in {"idle", "returned"}
    /\ cycle.pc = "pairs"
    /\ stats.totalExecutions < MaxExecutions
    /\ \E amount \in FlashLoanAmounts :
           find' = [IdleFind EXCEPT !.pc = "quotes", !.flashLoanAmount = amount]
    /\ cycle' = [IdleCycle EXCEPT !.pc = "finding"]
    /\ UNCHANGED <<stats, beyondCycle>>

\* lines 376-401: the quotes arrive and both directions start, each running
\* to its first getAmountsOut.
quotesArrive ==
    /\ find.pc = "quotes"
    /\ find' = [find EXCEPT
           !.pc = "calculate",
           !.dir = [d \in DirIndex |-> [IdleDirection EXCEPT !.pc = "swap1"]]]
    /\ UNCHANGED <<cycle, stats, beyondCycle>>

\* lines 376-379 and 414-427: a quote fails; the catch returns null.
quotesFail ==
    /\ find.pc = "quotes"
    /\ find' = [find EXCEPT !.pc = "returned", !.result = "null"]
    /\ UNCHANGED <<cycle, stats, beyondCycle>>

\* lines 445-447: router1 answers the first swap.
firstSwapReply ==
    \E d \in DirIndex, out \in FirstSwapOutputs :
        /\ find.dir[d].pc = "swap1"
        /\ find' = [find EXCEPT !.dir[d].pc = "swap2",
                                !.dir[d].amountAfterFirstSwap = out]
        /\ UNCHANGED <<cycle, stats, beyondCycle>>

\* lines 450-470: router2 answers the second swap and calculateArbitrage
\* returns its opportunity.
secondSwapReply ==
    \E d \in DirIndex, out \in SecondSwapOutputs :
        /\ find.dir[d].pc = "swap2"
        /\ find' = [find EXCEPT
               !.dir[d].pc = "done",
               !.dir[d].amountAfterSecondSwap = out,
               !.dir[d].opportunity =
                   calculateArbitrage(find.flashLoanAmount, Directions[d], out)]
        /\ UNCHANGED <<cycle, stats, beyondCycle>>

\* lines 446 / 450: a router call of calculateArbitrage is rejected.
swapFail ==
    \E d \in DirIndex :
        /\ find.dir[d].pc \in {"swap1", "swap2"}
        /\ find' = [find EXCEPT !.dir[d].pc = "failed"]
        /\ UNCHANGED <<cycle, stats, beyondCycle>>

\* lines 388-413: Promise.all resolves once both directions are done; the
\* best is selected and returned if its profit is positive.
findReturn ==
    /\ find.pc = "calculate"
    /\ \A d \in DirIndex : find.dir[d].pc = "done"
    /\ LET best == bestOpportunity(<<find.dir[1].opportunity, find.dir[2].opportunity>>)
       IN  find' = [find EXCEPT
               !.pc = "returned",
               !.best = best,
               !.result = IF actionable(best) THEN best.direction ELSE "null"]
    /\ UNCHANGED <<cycle, stats, beyondCycle>>

\* lines 388-401 and 414-427: Promise.all rejects as soon as one direction
\* fails; the catch returns null.
findFail ==
    /\ find.pc = "calculate"
    /\ \E d \in DirIndex : find.dir[d].pc = "failed"
    /\ find' = [find EXCEPT !.pc = "returned", !.result = "null"]
    /\ UNCHANGED <<cycle, stats, beyondCycle>>

\* config.arbitrage.minProfit, default 0.003 ETH
minProfit == 30

\* A gate that lets a profit equal to the floor through.
exceedsMinProfitOrEqual(opportunity) == opportunity.profit >= minProfit

\* line 298: opportunity.profit.gt(config.arbitrage.minProfit)
exceedsMinProfit(opportunity) == opportunity.profit > minProfit

\* checkAllPairs, lines 297-304: what findArbitrageOpportunity returned is
\* null or does not exceed minProfit, and the iteration ends.
opportunitySkipped ==
    /\ cycle.pc = "finding"
    /\ find.pc = "returned"
    /\ ~(find.result # "null" /\ exceedsMinProfit(find.best))
    /\ cycle' = [cycle EXCEPT !.pc = "idle", !.outcome = "noOpportunity"]
    /\ UNCHANGED <<find, stats, beyondCycle>>

\* checkAllPairs, lines 297-300: the opportunity exceeds minProfit and
\* validateOpportunity is called.
opportunityQualifies ==
    /\ cycle.pc = "finding"
    /\ find.pc = "returned"
    /\ find.result # "null"
    /\ exceedsMinProfit(find.best)
    /\ cycle' = [cycle EXCEPT !.pc = "validating"]
    /\ UNCHANGED <<find, stats, beyondCycle>>

\* config.ethereum.maxGasPrice, default 50 gwei
maxGasPrice == 50

\* config.arbitrage.maxSlippage, default 0.3 %, in hundredths of a percent
maxSlippage == 30

\* config.ethereum.gasLimit, 3000000, in units of 100000 gas
gasLimit == 30

\* config.arbitrage.maxFeeLimit, default 0.012 ETH, in units of 10^14 wei
maxFeeLimit == 120

\* What getCurrentGasPrice may return during an iteration, in gwei.
CycleGasPrices == {40, 50, 60}

\* What estimateGas may return, in units of 100000 gas; 30 is its fallback
\* and its ceiling (lines 616, 632, 637).  One unit of gas at one gwei
\* costs 10^14 wei, the unit of the amounts.
GasEstimates == {1, 2, 30}

\* config.validation.minWalletBalance, default 0.02 ETH, in units of
\* 10^14 wei
minWalletBalance == 200

\* What wallet.getBalance() may return at line 266.
Balances == {199, 200}

Gate(name, reading) == [name |-> name, reading |-> reading]

\* lines 221-233 and 237-240: a new iteration, whose locals replace the
\* last one's, reads the block number.  With no new block it sleeps and
\* ends; otherwise it goes to the liquidity check if the time read at line
\* 223 is more than liquidityCheckInterval past lastLiquidityCheck
\* (elapsed: it has become so since the last iteration), else to the gas
\* price.
monitorArbitrageOpportunities ==
    /\ cycle.pc = "idle"
    /\ find' = IdleFind
    /\ \E newBlock \in BOOLEAN, elapsed \in BOOLEAN :
           IF ~newBlock
           THEN /\ cycle' = [IdleCycle EXCEPT !.outcome = "noNewBlock"]
                /\ UNCHANGED liquidityDue
           ELSE /\ liquidityDue' = (liquidityDue \/ elapsed)
                /\ cycle' = [IdleCycle EXCEPT
                       !.pc = IF liquidityDue \/ elapsed THEN "liquidity"
                                                         ELSE "gas"]
    /\ UNCHANGED <<stats, gasQuotes, serviceVars, coordVars, supervisorVars>>

\* lines 241-250 and 189-215: checkAaveLiquidity answers (false also when
\* its call fails) and lastLiquidityCheck is set either way.
checkAaveLiquidity ==
    /\ cycle.pc = "liquidity"
    /\ liquidityDue' = FALSE
    /\ \E hasLiquidity \in BOOLEAN :
           cycle' = IF hasLiquidity
                    THEN [cycle EXCEPT !.pc = "gas",
                                       !.gate = Gate("liquidity", 1)]
                    ELSE [cycle EXCEPT !.pc = "idle",
                                       !.outcome = "noLiquidity",
                                       !.gate = Gate("liquidity", 0)]
    /\ UNCHANGED <<find, stats, gasQuotes, serviceVars, coordVars,
                   supervisorVars>>

\* A gas check that goes on to the balance whatever the price.
checkGasPriceAndGoOn ==
    /\ cycle.pc = "gas"
    /\ \E gasPrice \in CycleGasPrices :
           cycle' = [cycle EXCEPT !.pc = "balance",
                                  !.gate = Gate("gas", gasPrice)]
    /\ UNCHANGED <<find, stats, beyondCycle>>

\* lines 253-263: the gas price is read; above maxGasPrice the iteration
\* sleeps and ends.
checkGasPrice ==
    /\ cycle.pc = "gas"
    /\ \E gasPrice \in CycleGasPrices :
           cycle' = IF gasPrice > maxGasPrice
                    THEN [cycle EXCEPT !.pc = "idle",
                                       !.outcome = "gasTooHigh",
                                       !.gate = Gate("gas", gasPrice)]
                    ELSE [cycle EXCEPT !.pc = "balance",
                                       !.gate = Gate("gas", gasPrice)]
    /\ UNCHANGED <<find, stats, beyondCycle>>

\* lines 266-275: the balance is read; below minWalletBalance the
\* iteration sleeps and ends.
checkWalletBalance ==
    /\ cycle.pc = "balance"
    /\ \E balance \in Balances :
           cycle' = IF balance < minWalletBalance
                    THEN [cycle EXCEPT !.pc = "idle",
                                       !.outcome = "lowBalance",
                                       !.gate = Gate("balance", balance)]
                    ELSE [cycle EXCEPT !.pc = "pairs",
                                       !.gate = Gate("balance", balance)]
    /\ UNCHANGED <<find, stats, beyondCycle>>

\* checkAllPairs, lines 289-295: canExecute() finds the last execution too
\* recent and the pair is passed over.
pairPassedOver ==
    /\ cycle.pc = "pairs"
    /\ cycle' = [IdleCycle EXCEPT !.outcome = "tooSoon"]
    /\ UNCHANGED <<find, stats, beyondCycle>>

\* lines 224, 253, 266 and 282-285: getBlockNumber, getCurrentGasPrice or
\* getBalance rejects; the catch of the loop logs and sleeps 5000 ms.
iterationFaults ==
    /\ cycle.pc \in {"idle", "gas", "balance"}
    /\ cycle' = [IdleCycle EXCEPT !.outcome = "loopFault"]
    /\ find' = IdleFind
    /\ UNCHANGED <<stats, beyondCycle>>

\* stats.errors++ on a field the constructor never sets: undefined + 1.
countError(s) == [s EXCEPT !.errors = "NaN"]

\* A variant of validateOpportunity that counts a rejection as an error.
validateOpportunityCounting ==
    /\ cycle.pc = "validating"
    /\ \E currentGasPrice \in CycleGasPrices, balanceCoversGas \in BOOLEAN :
           LET ok == /\ ~(currentGasPrice > maxGasPrice)
                     /\ ~(find.best.roiBps < -maxSlippage)
                     /\ balanceCoversGas
           IN  /\ cycle' = IF ok
                           THEN [cycle EXCEPT !.pc = "executing",
                                              !.validatedAt = currentGasPrice]
                           ELSE [cycle EXCEPT !.pc = "idle",
                                              !.outcome = "rejected"]
               /\ stats' = IF ok THEN stats ELSE countError(stats)
    /\ UNCHANGED <<find, beyondCycle>>

\* validateOpportunity, lines 319-353, and line 301: the gas price, the
\* slippage and the balance are checked in this order.
validateOpportunity ==
    /\ cycle.pc = "validating"
    /\ \E currentGasPrice \in CycleGasPrices, balanceCoversGas \in BOOLEAN :
           LET ok == /\ ~(currentGasPrice > maxGasPrice)
                     /\ ~(find.best.roiBps < -maxSlippage)
                     /\ balanceCoversGas
           IN  cycle' = IF ok
                        THEN [cycle EXCEPT !.pc = "executing",
                                           !.validatedAt = currentGasPrice]
                        ELSE [cycle EXCEPT !.pc = "idle",
                                           !.outcome = "rejected"]
    /\ UNCHANGED <<find, stats, beyondCycle>>

\* validateOpportunity, lines 354-357: getCurrentGasPrice or getBalance
\* rejects; the catch returns false.
validateOpportunityThrows ==
    /\ cycle.pc = "validating"
    /\ cycle' = [cycle EXCEPT !.pc = "idle", !.outcome = "validateFault"]
    /\ UNCHANGED <<find, stats, beyondCycle>>

\* A total fee that leaves the flash-loan fee out.
gasCostOnly(gasEstimate, gasPrice, flashLoanAmount) == gasEstimate * gasPrice

\* executeArbitrage, lines 516-521: gasCost.add(aaveFee)
totalFeeOf(gasEstimate, gasPrice, flashLoanAmount) ==
    gasEstimate * gasPrice + flashLoanFee(flashLoanAmount)

\* executeArbitrage, lines 473-546: the gas price is read again and the
\* estimate and the total fee are checked, then the transaction is sent.
sendTransaction ==
    /\ cycle.pc = "executing"
    /\ stats.totalExecutions < MaxExecutions
    /\ \E gasPrice \in CycleGasPrices, gasEstimate \in GasEstimates :
           LET totalFee == totalFeeOf(gasEstimate, gasPrice,
                                      find.best.flashLoanAmount)
               quoted == [cycle EXCEPT !.quotedAt = gasPrice,
                                       !.gasEstimate = gasEstimate]
           IN  IF gasEstimate > gasLimit
               THEN /\ cycle' = [quoted EXCEPT !.pc = "idle",
                                               !.outcome = "executeFault"]
                    /\ stats' = countError(stats)
               ELSE IF totalFee > maxFeeLimit
                    THEN /\ cycle' = [quoted EXCEPT !.pc = "idle",
                                                    !.outcome = "feeOverLimit"]
                         /\ UNCHANGED stats
                    ELSE /\ cycle' = [quoted EXCEPT !.pc = "submitted",
                                                    !.sentAt = gasPrice]
                         /\ UNCHANGED stats
    /\ UNCHANGED <<find, beyondCycle>>

\* executeArbitrage, lines 492, 536, 549 and 578-591: getCurrentGasPrice,
\* contract.arbitrage or tx.wait rejects; the catch counts and rethrows to
\* checkAllPairs, which logs.
executeArbitrageThrows ==
    /\ cycle.pc \in {"executing", "submitted"}
    /\ cycle' = [cycle EXCEPT !.pc = "idle", !.outcome = "executeFault"]
    /\ stats' = countError(stats)
    /\ UNCHANGED <<find, beyondCycle>>

\* lines 552-554: a receipt has arrived, whatever its status.
countExecution(s) == [s EXCEPT !.totalExecutions = @ + 1]

\* lines 552-562: a receipt with status 1
countSuccess(s, profit) ==
    [countExecution(s) EXCEPT !.successfulArbitrages = @ + 1,
                              !.totalProfit = @ + profit]

\* executeArbitrage, lines 549-577: the receipt arrives.  Status 1 counts a
\* success; any other status throws into the catch.  The sum totalGasUsed
\* changes with totalExecutions and is not kept.
transactionConfirmed ==
    /\ cycle.pc = "submitted"
    /\ \E status \in {0, 1} :
           /\ cycle' = [cycle EXCEPT
                  !.pc = "idle",
                  !.outcome = IF status = 1 THEN "succeeded" ELSE "executeFault"]
           /\ stats' =
                  IF status = 1
                  THEN countSuccess(stats, find.best.profit)
                  ELSE countError(countExecution(stats))
    /\ UNCHANGED <<find, beyondCycle>>

InitCalc ==
    /\ find = IdleFind
    /\ cycle = IdleCycle
    /\ stats = [totalExecutions |-> 0, successfulArbitrages |-> 0,
                totalProfit |-> 0, errors |-> "undefined"]
    /\ liquidityDue = TRUE                 \* lastLiquidityCheck = 0

NextCalc ==
    \/ findArbitrageOpportunity
    \/ quotesArrive
    \/ quotesFail
    \/ firstSwapReply
    \/ secondSwapReply
    \/ swapFail
    \/ findReturn
    \/ findFail
    \/ opportunitySkipped
    \/ opportunityQualifies
    \/ monitorArbitrageOpportunities
    \/ checkAaveLiquidity
    \/ checkGasPrice
    \/ checkWalletBalance
    \/ pairPassedOver
    \/ iterationFaults
    \/ validateOpportunity
    \/ validateOpportunityThrows
    \/ sendTransaction
    \/ executeArbitrageThrows
    \/ transactionConfirmed

(***************************************************************************)
(* ArbitrageService: the gas figures of one execution                      *)
(* (src/unnamed/part_007, estimateGas 611-640 and executeArbitrage         *)
(* 502-544).                                                               *)
(*                                                                         *)
(* Gas is counted in units of 100000, as gasLimit above, and the           *)
(* arithmetic is the program's mul(120).div(100) on those numbers.         *)
(***************************************************************************)

\* The largest answer of contract.estimateGas.arbitrage the model tries.
MaxRawEstimate == 37

\* What contract.estimateGas.arbitrage may answer (line 620).
RawEstimates == 0 .. MaxRawEstimate

\* What getCurrentGasPrice may return at line 492, in gwei: executeArbitrage
\* does not compare it with maxGasPrice.
QuoteGasPrices == {3, 40}

\* config.validation.maxGasEstimate, default 3000000
maxGasEstimate == 30

\* estimateGas, lines 616 and 637: "3000000", returned when the parameters
\* are missing or the backend call rejects.
fallbackGasEstimate == 30

\* An estimate returned as the backend gave it, with no buffer.
estimateGasUnbuffered(raw) ==
    IF raw > maxGasEstimate THEN maxGasEstimate ELSE raw

\* estimateGas, lines 626-634, when the backend answers raw
estimateGas(raw) ==
    IF raw > maxGasEstimate THEN maxGasEstimate ELSE (raw * 120) \div 100

\* executeArbitrage, line 541: gasLimit: gasEstimate.mul(120).div(100)
submittedGasLimit(gasEstimate) == (gasEstimate * 120) \div 100

NotQuoted ==
    [raw |-> -1, gasPrice |-> 0, gasEstimate |-> 0, outcome |-> "none",
     gasLimit |-> 0]

\* executeArbitrage, lines 502-544, for one answer of estimateGas: the
\* check against config.ethereum.gasLimit, the fee check, and the gas
\* limit of the transaction if it is sent.  raw is -1 when estimateGas fell
\* back.
gasFigures(raw, gasEstimate, gasPrice, flashLoanAmount) ==
    LET outcome ==
            IF gasEstimate > gasLimit THEN "executeFault"
            ELSE IF totalFeeOf(gasEstimate, gasPrice, flashLoanAmount)
                        > maxFeeLimit
                 THEN "feeOverLimit"
                 ELSE "sent"
    IN  [raw |-> raw, gasPrice |-> gasPrice, gasEstimate |-> gasEstimate,
         outcome |-> outcome,
         gasLimit |-> IF outcome = "sent"
                      THEN submittedGasLimit(gasEstimate) ELSE 0]

\* config.arbitrage.flashLoanAmount, 5 ETH: the amount every opportunity
\* of the monitor loop borrows.
configuredFlashLoanAmount == 50000

\* One executeArbitrage call from its gas estimate to contract.arbitrage,
\* the backend answering raw; gasQuotes keeps the last two calls.
quoteGas ==
    /\ \E raw \in RawEstimates, gasPrice \in QuoteGasPrices :
           gasQuotes' = <<gasQuotes[2],
                       gasFigures(raw, estimateGas(raw), gasPrice,
                                  configuredFlashLoanAmount)>>
    /\ UNCHANGED <<find, cycle, stats, beyondCycleGas>>

\* The same call when estimateGas falls back (lines 614-617, 635-638).
quoteGasFallsBack ==
    /\ \E gasPrice \in QuoteGasPrices :
           gasQuotes' = <<gasQuotes[2],
                       gasFigures(-1, fallbackGasEstimate, gasPrice,
                                  configuredFlashLoanAmount)>>
    /\ UNCHANGED <<find, cycle, stats, beyondCycleGas>>

InitEstimate == gasQuotes = <<NotQuoted, NotQuoted>>

NextEstimate ==
    \/ quoteGas
    \/ quoteGasFallsBack

(***************************************************************************)
(* ArbitrageService: the execution loop (src/unnamed/part_007, 73-92,      *)
(* 217-317, 473-609).  One clock tick is 1000 ms.                          *)
(*                                                                         *)
(* Every start() launches one more monitorArbitrageOpportunities() call;   *)
(* a call ends only when it finds isRunning false at the top of its loop.  *)
(* The awaits of one iteration are kept as the positions                   *)
(*   "checks"    block number, liquidity, gas price, balance (221-275)     *)
(*   "find"      findArbitrageOpportunity (297)                            *)
(*   "validate"  validateOpportunity (301)                                 *)
(*   "prepare"   gas price, gas estimate, sending the transaction (492-546)*)
(*   "inflight"  tx.wait(): submitted and not yet confirmed (549)          *)
(*   "recover"   handleGasError's sleep (598)                              *)
(*   "sleep"     the sleep that ends the iteration (231-284)               *)
(* and what the chain and the exchanges answer is chosen by the actions.   *)
(***************************************************************************)

\* How many monitorArbitrageOpportunities() calls the model lets be live.
MaxLoops == 2

Loops == 1 .. MaxLoops

\* this.minExecutionInterval = 5000
minExecutionInterval == 5

\* config.monitoring.checkInterval, default 8000
checkInterval == 8

\* line 231: sleep(3000) when no new block has arrived
blockWait == 3

\* line 284: sleep(5000) after an error in the loop
errorSleep == 5

\* line 598: handleGasError sleeps 10000
gasErrorDelay == 10

\* config.monitoring.blockBasedExecution, line 791
blockBasedExecution == TRUE

OffLoop == [pc |-> "off", timer |-> 0]

At(pc) == [pc |-> pc, timer |-> 0]

Sleeping(ms) == [pc |-> "sleep", timer |-> ms]

Timed(l) == l.pc \in {"sleep", "recover"}

\* canExecute(), lines 311-317
canExecute(age) == ~(age < minExecutionInterval)

\* line 75, the synchronous part of start()
startCall ==
    /\ isRunning' = TRUE
    /\ starting' = TRUE
    /\ UNCHANGED <<loop, sinceExec>>

\* lines 81 and 220-222: start() launches the loop, which runs to its first
\* await if isRunning still holds and ends at once if it does not.
launchLoop ==
    /\ starting' = FALSE
    /\ LET l == CHOOSE k \in Loops :
                   /\ loop[k].pc = "off"
                   /\ \A j \in Loops : loop[j].pc = "off" => k <= j
       IN  loop' = [loop EXCEPT ![l] = IF isRunning THEN At("checks") ELSE OffLoop]
    /\ UNCHANGED <<isRunning, sinceExec>>

\* start(), lines 73-78, called by ArbitrageBot.start or BotService.
start ==
    /\ ~starting
    /\ ~ \A l \in Loops : loop[l].pc # "off"
    /\ startCall
    /\ UNCHANGED <<blocks, serviceVars, calcVars, supervisorVars>>

\* start(), lines 78-86: the initial checks pass.
startChecksPass ==
    /\ starting
    /\ launchLoop
    /\ UNCHANGED <<blocks, serviceVars, calcVars, supervisorVars>>

\* start(), line 78: an initial check throws; start() rejects and no loop
\* is launched.
startChecksFail ==
    /\ starting
    /\ starting' = FALSE
    /\ UNCHANGED <<isRunning, loop, sinceExec>>
    /\ UNCHANGED <<blocks, serviceVars, calcVars, supervisorVars>>

\* stop(), lines 89-92
stop ==
    /\ isRunning
    /\ isRunning' = FALSE
    /\ UNCHANGED <<starting, loop, sinceExec>>
    /\ UNCHANGED <<blocks, serviceVars, calcVars, supervisorVars>>

\* Block numbers only grow and the loop only tests them for equality, so
\* of each loop's lastBlockNumber the model keeps whether it is the number
\* of the chain's newest block (lastIsNewest), and of the block at which
\* findArbitrageOpportunity was last called likewise (evaluatedNewest).
NoBlockSeen ==
    [lastIsNewest |-> [l \in Loops |-> FALSE], evaluatedNewest |-> FALSE]

\* line 229: the block number just read is the one this loop passed to
\* checkAllPairs last.
sameBlock(l) == blockBasedExecution /\ blocks.lastIsNewest[l]

\* lines 224-233: no new block; the iteration sleeps 3000 ms and ends.
noNewBlock ==
    \E l \in Loops :
        /\ loop[l].pc = "checks"
        /\ sameBlock(l)
        /\ loop' = [loop EXCEPT ![l] = Sleeping(blockWait)]
        /\ UNCHANGED <<isRunning, starting, sinceExec>>
        /\ UNCHANGED <<blocks, serviceVars, calcVars, supervisorVars>>

\* lines 236-275 and 282-285: a check fails or a call rejects, and the
\* iteration ends with the sleep of the branch taken; an error can come
\* from getBlockNumber itself.
checksSkip ==
    \E l \in Loops, ms \in {checkInterval, errorSleep} :
        /\ loop[l].pc = "checks"
        /\ ms = checkInterval => ~sameBlock(l)
        /\ loop' = [loop EXCEPT ![l] = Sleeping(ms)]
        /\ UNCHANGED <<isRunning, starting, sinceExec>>
        /\ UNCHANGED <<blocks, serviceVars, calcVars, supervisorVars>>

\* lines 278-279 and 289-297: a new block, all checks pass and
\* checkAllPairs asks canExecute() for the one trading pair.  Line 279
\* assigns lastBlockNumber when checkAllPairs returns; the loop reads it
\* next at line 229 of its next iteration, so the model assigns it here.
checksPass ==
    \E l \in Loops :
        /\ loop[l].pc = "checks"
        /\ ~sameBlock(l)
        /\ loop' = [loop EXCEPT ![l] = IF canExecute(sinceExec)
                                        THEN At("find")
                                        ELSE Sleeping(checkInterval)]
        /\ blocks' = [blocks EXCEPT
               !.lastIsNewest[l] = TRUE,
               !.evaluatedNewest = IF canExecute(sinceExec) THEN TRUE ELSE @]
        /\ UNCHANGED <<isRunning, starting, sinceExec>>
        /\ UNCHANGED <<serviceVars, calcVars, supervisorVars>>

\* lines 297-298: no opportunity, or none above minProfit.
findNothing ==
    \E l \in Loops :
        /\ loop[l].pc = "find"
        /\ loop' = [loop EXCEPT ![l] = Sleeping(checkInterval)]
        /\ UNCHANGED <<isRunning, starting, sinceExec>>
        /\ UNCHANGED <<blocks, serviceVars, calcVars, supervisorVars>>

\* lines 297-300: a qualifying opportunity.
findQualifies ==
    \E l \in Loops :
        /\ loop[l].pc = "find"
        /\ loop' = [loop EXCEPT ![l] = At("validate")]
        /\ UNCHANGED <<isRunning, starting, sinceExec>>
        /\ UNCHANGED <<blocks, serviceVars, calcVars, supervisorVars>>

\* line 300: validateOpportunity returns false.
validateRejects ==
    \E l \in Loops :
        /\ loop[l].pc = "validate"
        /\ loop' = [loop EXCEPT ![l] = Sleeping(checkInterval)]
        /\ UNCHANGED <<isRunning, starting, sinceExec>>
        /\ UNCHANGED <<blocks, serviceVars, calcVars, supervisorVars>>

\* lines 300-301 and 473-492: validateOpportunity returns true and
\* executeArbitrage stamps lastExecutionTime.
executeArbitrage ==
    \E l \in Loops :
        /\ loop[l].pc = "validate"
        /\ loop' = [loop EXCEPT ![l] = At("prepare")]
        /\ sinceExec' = 0
        /\ UNCHANGED <<isRunning, starting>>
        /\ UNCHANGED <<blocks, serviceVars, calcVars, supervisorVars>>

\* lines 524-533 and 578-591: the fee is over the limit, or a step before
\* sending fails; with a gas error handleGasError sleeps first.
executeAborts ==
    \E l \in Loops, gasError \in BOOLEAN :
        /\ loop[l].pc = "prepare"
        /\ loop' = [loop EXCEPT ![l] =
               IF gasError THEN [pc |-> "recover", timer |-> gasErrorDelay]
                           ELSE Sleeping(checkInterval)]
        /\ UNCHANGED <<isRunning, starting, sinceExec>>
        /\ UNCHANGED <<blocks, serviceVars, calcVars, supervisorVars>>

\* lines 536-549: contract.arbitrage has sent the transaction.
submitTransaction ==
    \E l \in Loops :
        /\ loop[l].pc = "prepare"
        /\ loop' = [loop EXCEPT ![l] = At("inflight")]
        /\ UNCHANGED <<isRunning, starting, sinceExec>>
        /\ UNCHANGED <<blocks, serviceVars, calcVars, supervisorVars>>

\* lines 549-591: tx.wait() settles, with a receipt or an error.
transactionSettles ==
    \E l \in Loops, gasError \in BOOLEAN :
        /\ loop[l].pc = "inflight"
        /\ loop' = [loop EXCEPT ![l] =
               IF gasError THEN [pc |-> "recover", timer |-> gasErrorDelay]
                           ELSE Sleeping(checkInterval)]
        /\ UNCHANGED <<isRunning, starting, sinceExec>>
        /\ UNCHANGED <<blocks, serviceVars, calcVars, supervisorVars>>

\* lines 598-609 and 306-308: handleGasError ends, the error reaches
\* checkAllPairs, which logs it.
recovered ==
    \E l \in Loops :
        /\ loop[l].pc = "recover"
        /\ loop[l].timer = 0
        /\ loop' = [loop EXCEPT ![l] = Sleeping(checkInterval)]
        /\ UNCHANGED <<isRunning, starting, sinceExec>>
        /\ UNCHANGED <<blocks, serviceVars, calcVars, supervisorVars>>

\* A wake that goes on to the next iteration whatever isRunning says.
wakeRegardless ==
    \E l \in Loops :
        /\ loop[l].pc = "sleep"
        /\ loop[l].timer = 0
        /\ loop' = [loop EXCEPT ![l] = At("checks")]
        /\ UNCHANGED <<isRunning, starting, sinceExec>>
        /\ UNCHANGED <<blocks, serviceVars, calcVars, supervisorVars>>

\* line 220: the sleep is over and the loop condition is read.
wake ==
    \E l \in Loops :
        /\ loop[l].pc = "sleep"
        /\ loop[l].timer = 0
        /\ loop' = [loop EXCEPT ![l] = IF isRunning THEN At("checks") ELSE OffLoop]
        /\ blocks' = IF isRunning THEN blocks
                                  ELSE [blocks EXCEPT !.lastIsNewest[l] = FALSE]
        /\ UNCHANGED <<isRunning, starting, sinceExec>>
        /\ UNCHANGED <<serviceVars, calcVars, supervisorVars>>

\* src/bot/src/index.js 391-415: SIGINT, SIGTERM, an uncaught exception or
\* an unhandled rejection runs shutdown(): stop(), whose awaits wait for
\* nothing, then process.exit(0).  Every loop ends where it stands, and a
\* loop inside tx.wait() never sees its receipt ("abandoned").
shutdown ==
    /\ ~ \A l \in Loops : loop[l].pc \in {"killed", "abandoned"}
    /\ isRunning' = FALSE
    /\ starting' = FALSE
    /\ loop' = [l \in Loops |-> IF loop[l].pc = "inflight"
                                   THEN At("abandoned")
                                   ELSE At("killed")]
    /\ UNCHANGED sinceExec
    /\ UNCHANGED <<blocks, serviceVars, calcVars, supervisorVars>>

\* The chain grows by one block, which no loop has read yet.
newBlock ==
    /\ blocks # NoBlockSeen
    /\ blocks' = NoBlockSeen
    /\ UNCHANGED <<isRunning, starting, loop, sinceExec>>
    /\ UNCHANGED <<serviceVars, calcVars, supervisorVars>>

\* 1000 ms pass; no timer is left behind.
TickCoord ==
    /\ \A l \in Loops : Timed(loop[l]) => loop[l].timer > 0
    /\ sinceExec' = Min(sinceExec + 1, minExecutionInterval)
    /\ loop' = [l \in Loops |->
                   IF Timed(loop[l]) THEN [loop[l] EXCEPT !.timer = @ - 1]
                                     ELSE loop[l]]
    /\ UNCHANGED <<isRunning, starting>>
    /\ UNCHANGED <<blocks, serviceVars, calcVars, supervisorVars>>

InitCoord ==
    /\ isRunning = FALSE
    /\ starting = FALSE
    /\ loop = [l \in Loops |-> OffLoop]
    /\ sinceExec = minExecutionInterval    \* this.lastExecutionTime = 0
    /\ blocks = NoBlockSeen                 \* lastBlockNumber = 0

NextCoord ==
    \/ start
    \/ startChecksPass
    \/ startChecksFail
    \/ stop
    \/ noNewBlock
    \/ checksSkip
    \/ checksPass
    \/ findNothing
    \/ findQualifies
    \/ validateRejects
    \/ executeArbitrage
    \/ executeAborts
    \/ submitTransaction
    \/ transactionSettles
    \/ recovered
    \/ wake
    \/ shutdown
    \/ newBlock
    \/ TickCoord

(***************************************************************************)
(* ArbitrageBot: the supervisor (src/bot/src/index.js, 35-72, 262-389)     *)
(*                                                                         *)
(* botPc follows ArbitrageBot through start() and restart():               *)
(*   "created"       constructed, start() not yet called                   *)
(*   "healthChecks"  start() is inside performHealthChecks()               *)
(*   "starting"      start() is awaiting arbitrageService.start()          *)
(*   "running"       start() has returned; the intervals are registered    *)
(*   "restartSleep"  restart() has called stop() and sleeps 5000 ms        *)
(*   "stopped"       stop() was called from outside; the intervals remain  *)
(*   "exited"        process.exit(1)                                        *)
(* What a health re-check or the gas monitor finds is chosen by the        *)
(* actions.  this.stats.errors is only ever logged and is left out.        *)
(***************************************************************************)

\* this.maxConsecutiveErrors = 5
maxConsecutiveErrors == 5

\* The largest value the model lets this.stats.consecutiveErrors take.
MaxErrorCount == 7

\* How many times the model lets startMonitoringLoops register intervals.
MaxMonitors == 2

\* handleMonitoringError, lines 327-351, on this.stats.consecutiveErrors
handleMonitoringError(count, critical) ==
    IF critical THEN count + 1 ELSE Max(0, count - 1)

\* line 130: failedChecks > 2
maxFailedChecks == 2

\* The checks of performHealthChecks, in the order of its array (lines
\* 100-112).
HealthChecks ==
    <<"Ethereum RPC", "Contract Connection", "Price Service", "Gas Service",
      "Network Status", "Memory Usage", "Disk Space">>

\* The wallet's address, and what contract.owner() may answer: the wallet,
\* another account, the zero address.
walletAddress == "0xAb"

AddressZero == "0x00"

Owners == {"0xAb", "0xCd", AddressZero}

\* A threshold test that already gives up at maxFailedChecks failures.
tooManyFailedInclusive(failedChecks) == failedChecks >= maxFailedChecks

\* line 130
tooManyFailed(failedChecks) == failedChecks > maxFailedChecks

\* checkContractConnection, lines 176-179: any owner but none or zero.
checkContractConnection(owner) == owner # AddressZero

\* An ownership test that, like checkContractConnection, takes any owner
\* but the zero address.
checkContractPermissionsAnyOwner(owner) == owner # AddressZero

\* checkContractPermissions, part_007 lines 175-180
checkContractPermissions(owner) ==
    ToLowerCase(owner) = ToLowerCase(walletAddress)

\* BotService.initializeContract, main.js lines 607-610
initializeContract(owner) ==
    ToLowerCase(owner) = ToLowerCase(walletAddress)

\* byRestart: this start() was called by restart() (line 385).
NotStarted ==
    [checked |-> 0, failedChecks |-> 0, owner |-> "none", byRestart |-> FALSE]

\* How far the model lets each counter of the desktop app's botStats go.
MaxAppEvents == 1

\* What data.profit may be in updateStats("success", data).
AppProfits == {0, 3}

\* main.js lines 357-366, without the two dates
NoBotStats ==
    [totalExecutions |-> 0, successfulArbitrages |-> 0, totalProfit |-> 0,
     errors |-> 0, consecutiveErrors |-> 0]

AppOff == [pc |-> "off", owner |-> "none", botStats |-> NoBotStats]

\* ArbitrageBot.start(), lines 35-50 and 97-114: performHealthChecks
\* begins.  owner is who owns the contract while this start runs.  The
\* process is the bot's: the desktop app's BotService has done nothing.
performHealthChecks ==
    /\ botPc \in {"created", "stopped"}
    /\ app = AppOff
    /\ botPc' = "healthChecks"
    /\ \E owner \in Owners : startup' = [NotStarted EXCEPT !.owner = owner]
    /\ UNCHANGED <<consecutiveErrors, healthFailStreak, healthMonitors, app>>
    /\ UNCHANGED <<serviceVars, calcVars, coordVars>>

\* lines 116-128: the next check of the array runs; an unhealthy result or
\* a throw counts one failure.  The contract check cannot be healthy with
\* the zero address as owner.
runHealthCheck ==
    /\ botPc = "healthChecks"
    /\ startup.checked < Len(HealthChecks)
    /\ \E healthy \in BOOLEAN :
          /\ (/\ HealthChecks[startup.checked + 1] = "Contract Connection"
              /\ ~checkContractConnection(startup.owner)) => ~healthy
          /\ startup' = [startup EXCEPT
                 !.checked = @ + 1,
                 !.failedChecks = IF healthy THEN @ ELSE @ + 1]
    /\ UNCHANGED <<consecutiveErrors, botPc, healthFailStreak, healthMonitors,
                   app>>
    /\ UNCHANGED <<serviceVars, calcVars, coordVars>>

\* lines 130-135 and 53: no more than maxFailedChecks checks failed and
\* arbitrageService.start() is called.
botStart ==
    /\ botPc = "healthChecks"
    /\ startup.checked = Len(HealthChecks)
    /\ ~tooManyFailed(startup.failedChecks)
    /\ ~starting
    /\ ~ \A l \in Loops : loop[l].pc # "off"
    /\ startCall
    /\ botPc' = "starting"
    /\ UNCHANGED <<consecutiveErrors, healthFailStreak, healthMonitors,
                   startup, app>>
    /\ UNCHANGED <<blocks, serviceVars, calcVars>>

\* lines 130-132 and 68-71: performHealthChecks throws and start() exits
\* the process.
botStartFails ==
    /\ botPc = "healthChecks"
    /\ startup.checked = Len(HealthChecks)
    /\ tooManyFailed(startup.failedChecks)
    /\ botPc' = "exited"
    /\ UNCHANGED <<consecutiveErrors, healthFailStreak, healthMonitors,
                   startup, app>>
    /\ UNCHANGED <<serviceVars, calcVars, coordVars>>

\* A start() that, like the desktop app's, begins a run with its counters
\* at zero.
botStartedFromZero ==
    /\ botPc = "starting"
    /\ starting
    /\ checkContractPermissions(startup.owner)
    /\ healthMonitors < MaxMonitors
    /\ launchLoop
    /\ botPc' = "running"
    /\ healthMonitors' = healthMonitors + 1
    /\ healthFailStreak' = 0
    /\ stats' = [stats EXCEPT !.totalExecutions = 0,
                              !.successfulArbitrages = 0, !.totalProfit = 0]
    /\ UNCHANGED <<consecutiveErrors, startup, app>>
    /\ UNCHANGED <<blocks, serviceVars, find, cycle, liquidityDue,
                   gasQuotes>>

\* lines 53-67: arbitrageService.start() returns: its initial checks, the
\* ownership check among them, passed and it launched its loop;
\* startMonitoringLoops registers one more set of intervals.
botStarted ==
    /\ botPc = "starting"
    /\ starting
    /\ checkContractPermissions(startup.owner)
    /\ healthMonitors < MaxMonitors
    /\ launchLoop
    /\ botPc' = "running"
    /\ healthMonitors' = healthMonitors + 1
    /\ healthFailStreak' = 0
    /\ UNCHANGED <<consecutiveErrors, startup, app>>
    /\ UNCHANGED <<blocks, serviceVars, calcVars>>

\* lines 53 and 68-71: arbitrageService.start() rejects, one of its
\* initial checks having thrown.
botStartRejected ==
    /\ botPc = "starting"
    /\ starting
    /\ starting' = FALSE
    /\ botPc' = "exited"
    /\ UNCHANGED <<isRunning, loop, sinceExec>>
    /\ UNCHANGED <<consecutiveErrors, healthFailStreak, healthMonitors,
                   startup, app>>
    /\ UNCHANGED <<blocks, serviceVars, calcVars>>

\* ArbitrageBot.stop(), lines 74-95, called on the exported class by its
\* host (and not by restart() or by a shutdown signal): isRunning is
\* cleared and arbitrageService.stop() runs.  No interval is cleared.
botStop ==
    /\ botPc = "running"
    /\ botPc' = "stopped"
    /\ isRunning' = FALSE
    /\ UNCHANGED <<starting, loop, sinceExec, blocks>>
    /\ UNCHANGED <<consecutiveErrors, healthFailStreak, healthMonitors,
                   startup, app>>
    /\ UNCHANGED <<serviceVars, calcVars>>

\* The health interval, lines 286-298, finds the system unhealthy; at
\* maxConsecutiveErrors it calls restart(), which runs stop() (lines 74-81
\* and part_007 89-92) and goes to sleep.
healthCheckFails ==
    /\ botPc \in {"running", "stopped"}
    /\ consecutiveErrors < MaxErrorCount
    /\ consecutiveErrors' = consecutiveErrors + 1
    /\ healthFailStreak' = Min(healthFailStreak + 1, MaxErrorCount)
    /\ IF consecutiveErrors + 1 >= maxConsecutiveErrors
       THEN /\ botPc' = "restartSleep"
            /\ isRunning' = FALSE
       ELSE UNCHANGED <<botPc, isRunning>>
    /\ UNCHANGED <<starting, loop, sinceExec, healthMonitors, startup, app>>
    /\ UNCHANGED <<blocks, serviceVars, calcVars>>

\* The health interval, lines 286-300, finds the system healthy.
healthCheckPasses ==
    /\ botPc = "running"
    /\ isRunning
    /\ consecutiveErrors' = 0
    /\ healthFailStreak' = 0
    /\ UNCHANGED <<botPc, healthMonitors, startup, app>>
    /\ UNCHANGED <<serviceVars, calcVars, coordVars>>

\* The gas interval, lines 264-279: getCurrentGasPrice throws.
gasMonitoringFails ==
    \E critical \in BOOLEAN :
        /\ botPc \in {"running", "stopped"}
        /\ handleMonitoringError(consecutiveErrors, critical) <= MaxErrorCount
        /\ consecutiveErrors' = handleMonitoringError(consecutiveErrors, critical)
        /\ UNCHANGED <<botPc, healthFailStreak, healthMonitors, startup, app>>
        /\ UNCHANGED <<serviceVars, calcVars, coordVars>>

\* restart(), lines 383-384, and start(), lines 35-50: the sleep is over
\* and start() begins with performHealthChecks.
restartStarts ==
    /\ botPc = "restartSleep"
    /\ botPc' = "healthChecks"
    /\ \E owner \in Owners :
          startup' = [NotStarted EXCEPT !.owner = owner, !.byRestart = TRUE]
    /\ UNCHANGED <<consecutiveErrors, healthFailStreak, healthMonitors, app>>
    /\ UNCHANGED <<serviceVars, calcVars, coordVars>>

\* BotService.startArbitrageBot, main.js lines 375-391: the configuration,
\* the provider, the wallet and the contract, whose owner must be the
\* wallet, are initialized and arbitrageService.start() is called.
startArbitrageBot ==
    /\ botPc = "created"
    /\ app.pc = "off"
    /\ ~starting
    /\ ~ \A l \in Loops : loop[l].pc # "off"
    /\ \E owner \in Owners :
          /\ initializeContract(owner)
          /\ app' = [app EXCEPT !.pc = "starting", !.owner = owner]
    /\ startCall
    /\ UNCHANGED <<consecutiveErrors, botPc, healthFailStreak, healthMonitors,
                   startup>>
    /\ UNCHANGED <<blocks, serviceVars, calcVars>>

\* main.js lines 379-385 and 406-409: an initialization step throws, the
\* ownership check of initializeContract for one; the service is not
\* started.
startArbitrageBotFails ==
    /\ botPc = "created"
    /\ app.pc = "off"
    /\ \E owner \in Owners : app' = [app EXCEPT !.owner = owner]
    /\ UNCHANGED <<consecutiveErrors, botPc, healthFailStreak, healthMonitors,
                   startup>>
    /\ UNCHANGED <<serviceVars, calcVars, coordVars>>

\* main.js lines 394-398: the counters startArbitrageBot sets to 0
resetOnStart(botStats) ==
    [botStats EXCEPT !.totalExecutions = 0, !.successfulArbitrages = 0,
                     !.totalProfit = 0, !.errors = 0]

\* main.js lines 391-404: arbitrageService.start() returns, its own
\* ownership check passed; isRunning = true and botStats is reset.
appStarted ==
    /\ app.pc = "starting"
    /\ starting
    /\ checkContractPermissions(app.owner)
    /\ launchLoop
    /\ app' = [app EXCEPT !.pc = "running",
                          !.botStats = resetOnStart(app.botStats)]
    /\ UNCHANGED <<consecutiveErrors, botPc, healthFailStreak, healthMonitors,
                   startup>>
    /\ UNCHANGED <<blocks, serviceVars, calcVars>>

\* main.js lines 391 and 406-409: arbitrageService.start() rejects.
appStartRejected ==
    /\ app.pc = "starting"
    /\ starting
    /\ starting' = FALSE
    /\ app' = [app EXCEPT !.pc = "off"]
    /\ UNCHANGED <<isRunning, loop, sinceExec>>
    /\ UNCHANGED <<consecutiveErrors, botPc, healthFailStreak, healthMonitors,
                   startup>>
    /\ UNCHANGED <<blocks, serviceVars, calcVars>>

\* BotService.stopArbitrageBot, main.js lines 413-419
stopArbitrageBot ==
    /\ app.pc = "running"
    /\ isRunning' = FALSE
    /\ app' = [app EXCEPT !.pc = "off"]
    /\ UNCHANGED <<starting, loop, sinceExec>>
    /\ UNCHANGED <<consecutiveErrors, botPc, healthFailStreak, healthMonitors,
                   startup>>
    /\ UNCHANGED <<blocks, serviceVars, calcVars>>

\* BotService.updateStats, main.js lines 656-672, exported to the rest of
\* the desktop app; "health_check" only stamps a date.
updateStats ==
    /\ botPc = "created"
    /\ \E event \in {"execution", "success", "error"}, profit \in AppProfits :
          LET b == app.botStats
              after ==
                  CASE event = "execution" ->
                           [b EXCEPT !.totalExecutions = @ + 1]
                    [] event = "success" ->
                           [b EXCEPT !.successfulArbitrages = @ + 1,
                                     !.totalProfit = @ + profit,
                                     !.consecutiveErrors = 0]
                    [] event = "error" ->
                           [b EXCEPT !.errors = @ + 1,
                                     !.consecutiveErrors = @ + 1]
          IN  /\ after.totalExecutions <= MaxAppEvents
              /\ after.successfulArbitrages <= MaxAppEvents
              /\ after.errors <= MaxAppEvents
              /\ after.consecutiveErrors <= MaxAppEvents
              /\ after # b
              /\ app' = [app EXCEPT !.botStats = after]
    /\ UNCHANGED <<consecutiveErrors, botPc, healthFailStreak, healthMonitors,
                   startup>>
    /\ UNCHANGED <<serviceVars, calcVars, coordVars>>

\* What the profit of a confirmed transaction may be (above minProfit).
ConfirmedProfits == {31}

\* part_007 lines 549-562, seen from the supervisor: a loop of the
\* service, live since some start(), gets the receipt of a transaction it
\* sent, with status 1.  (The iteration is followed step by step under
\* SpecCalc.)
executionConfirmed ==
    /\ ~ \A l \in Loops : loop[l].pc = "off"
    /\ stats.totalExecutions < MaxExecutions
    /\ \E profit \in ConfirmedProfits : stats' = countSuccess(stats, profit)
    /\ UNCHANGED <<find, cycle, liquidityDue, gasQuotes>>
    /\ UNCHANGED <<serviceVars, coordVars, supervisorVars>>

InitSupervisor ==
    /\ consecutiveErrors = 0
    /\ botPc = "created"
    /\ healthFailStreak = 0
    /\ healthMonitors = 0
    /\ startup = NotStarted
    /\ app = AppOff

NextSupervisor ==
    \/ performHealthChecks
    \/ runHealthCheck
    \/ botStart
    \/ botStartFails
    \/ botStarted
    \/ botStartRejected
    \/ botStop
    \/ healthCheckFails
    \/ healthCheckPasses
    \/ gasMonitoringFails
    \/ restartStarts
    \/ startArbitrageBot
    \/ startArbitrageBotFails
    \/ appStarted
    \/ appStartRejected
    \/ stopArbitrageBot
    \/ updateStats
    \/ executionConfirmed

(***************************************************************************)
(* GasService: classification (src/bot/src/services/gasService.js, 24-29,  *)
(* 152-162).  Gas prices are BigNumbers of wei in the program; the model   *)
(* counts them in gwei.                                                    *)
(***************************************************************************)

\* The largest gas price, in gwei, the model classifies.
MaxGwei == 120

GweiRange == 0 .. MaxGwei

\* this.thresholds, lines 24-29
thresholdLow == 10

thresholdMedium == 30

thresholdHigh == 50

thresholdExtreme == 100

\* A classification whose intervals are closed above: lte in place of lt.
getGasPriceLevelInclusive(gasPrice) ==
    IF gasPrice <= thresholdLow THEN "low"
    ELSE IF gasPrice <= thresholdMedium THEN "medium"
    ELSE IF gasPrice <= thresholdHigh THEN "high"
    ELSE IF gasPrice <= thresholdExtreme THEN "extreme"
    ELSE "critical"

\* getGasPriceLevel, lines 152-158
getGasPriceLevel(gasPrice) ==
    IF gasPrice < thresholdLow THEN "low"
    ELSE IF gasPrice < thresholdMedium THEN "medium"
    ELSE IF gasPrice < thresholdHigh THEN "high"
    ELSE IF gasPrice < thresholdExtreme THEN "extreme"
    ELSE "critical"

NotClassified == [price |-> -1, level |-> "none"]

\* One call of getGasPriceLevel, as a gas monitor makes it on the price it
\* read (gasService.js 255-256); classified keeps the last two calls.
classifyGasPrices ==
    /\ \E p \in GweiRange :
           classified' = <<classified[2],
                           [price |-> p, level |-> getGasPriceLevel(p)]>>
    /\ UNCHANGED <<priceServiceVars, calcVars, coordVars, supervisorVars,
                   gasMonitorVars>>

NextGasLevel == classifyGasPrices

(***************************************************************************)
(* GasService: cache, history, trend, recommendation                       *)
(* (src/bot/src/services/gasService.js).                                   *)
(*                                                                         *)
(* Prices are in gwei.  One tick of the gas clock is 2500 ms, so the       *)
(* cache's ttl of 5000 ms is 2 ticks.  getGasPriceTrend reads the last 10  *)
(* and the 10 before them; the model scales both windows to TrendWindow    *)
(* and keeps the 2 * TrendWindow newest entries of the history, the only   *)
(* ones the code ever reads (it keeps 100).  Percentages are kept in       *)
(* hundredths, as change.mul(10000).div(olderAvg) computes them.           *)
(***************************************************************************)

gasCacheTTL == 2

TrendWindow == 2

maxHistorySize == 2 * TrendWindow

\* What provider.getGasPrice() may report.
GasPrices == {0, 40, 44, 60}

trendThreshold == 500

rapidIncrease == 1000

RECURSIVE Sum(_)
Sum(items) == IF items = <<>> THEN 0 ELSE Head(items) + Sum(Tail(items))

\* A history that, when full, gives up its newest entry for the new one.
addToHistoryKeepingOldest(history, gasPrice) ==
    IF Len(history) >= maxHistorySize
    THEN Append(SubSeq(history, 1, Len(history) - 1), gasPrice)
    ELSE Append(history, gasPrice)

\* addToHistory: push, then drop the oldest entry beyond the size kept.
addToHistory(history, gasPrice) ==
    LET pushed == Append(history, gasPrice)
    IN  IF Len(pushed) > maxHistorySize THEN Tail(pushed) ELSE pushed

\* history.slice(-20): the older window with the recent one left in.
olderOfWithRecent(history) ==
    SubSeq(history, Max(1, Len(history) - 2 * TrendWindow + 1), Len(history))

\* history.slice(-10)
recentOf(history) ==
    SubSeq(history, Max(1, Len(history) - TrendWindow + 1), Len(history))

\* history.slice(-20, -10)
olderOf(history) ==
    SubSeq(history, Max(1, Len(history) - 2 * TrendWindow + 1),
           Len(history) - TrendWindow)

StableTrend == [trend |-> "stable", change |-> 0, threw |-> FALSE]

\* getGasPriceTrend.  BigNumber.div throws on a zero divisor: threw.
getGasPriceTrend(history) ==
    IF Len(history) < 2 THEN StableTrend
    ELSE IF olderOf(history) = <<>> THEN StableTrend
    ELSE LET recentAvg == TruncDiv(Sum(recentOf(history)),
                                   Len(recentOf(history)))
             olderAvg == TruncDiv(Sum(olderOf(history)),
                                  Len(olderOf(history)))
         IN  IF olderAvg = 0
             THEN [trend |-> "none", change |-> 0, threw |-> TRUE]
             ELSE LET changePercent ==
                          TruncDiv((recentAvg - olderAvg) * 10000, olderAvg)
                  IN  [trend |-> IF changePercent > trendThreshold
                                 THEN "increasing"
                                 ELSE IF changePercent < -trendThreshold
                                      THEN "decreasing"
                                      ELSE "stable",
                       change |-> changePercent,
                       threw |-> FALSE]

\* A variant of recommendationFor that waits from a rise of exactly 10 %.
recommendationForInclusive(level, trend) ==
    IF level \in {"extreme", "critical"} THEN "wait"
    ELSE IF trend.trend = "increasing" /\ trend.change >= rapidIncrease
         THEN "wait"
         ELSE IF level = "high" /\ trend.trend = "increasing"
              THEN "caution"
              ELSE "proceed"

\* The decision of getGasPriceRecommendation (lines 292-304).
recommendationFor(level, trend) ==
    IF level \in {"extreme", "critical"} THEN "wait"
    ELSE IF trend.trend = "increasing" /\ trend.change > rapidIncrease
         THEN "wait"
         ELSE IF level = "high" /\ trend.trend = "increasing"
              THEN "caution"
              ELSE "proceed"

NoAdvice ==
    [recommendation |-> "none", level |-> "none", trend |-> "none",
     change |-> 0, cause |-> "none"]

\* The catch of getGasPriceRecommendation (lines 314-321); cause records
\* what threw.
errorAdvice(cause) ==
    [recommendation |-> "error", level |-> "none", trend |-> "none",
     change |-> 0, cause |-> cause]

\* Lines 289-313, once the current gas price is known.
adviceFor(currentGasPrice, history) ==
    LET level == getGasPriceLevel(currentGasPrice)
        trend == getGasPriceTrend(history)
    IN  IF trend.threw
        THEN errorAdvice("trend")
        ELSE [recommendation |-> recommendationFor(level, trend),
              level |-> level, trend |-> trend.trend,
              change |-> trend.change, cause |-> "none"]

\* The cache test of getCurrentGasPrice (lines 38-41).  A BigNumber is
\* truthy whatever its value, so only null fails the first conjunct.
gasCacheHit ==
    /\ gasPriceCache.current # NoPrice
    /\ gasPriceCache.age < gasCacheTTL

\* getGasPriceRecommendation with getCurrentGasPrice succeeding, from the
\* cache or from the provider.
getGasPriceRecommendation ==
    /\ \/ /\ gasCacheHit
          /\ advice' = adviceFor(gasPriceCache.current, gasPriceHistory)
          /\ UNCHANGED <<gasPriceCache, gasPriceHistory>>
       \/ /\ ~gasCacheHit
          /\ \E gasPrice \in GasPrices :
                /\ gasPriceCache' = [current |-> gasPrice, age |-> 0]
                /\ gasPriceHistory' = addToHistory(gasPriceHistory, gasPrice)
                /\ advice' = adviceFor(gasPrice, gasPriceHistory')
    /\ UNCHANGED <<priceServiceVars, calcVars, coordVars, supervisorVars,
                   classified>>

\* getGasPriceRecommendation with provider.getGasPrice() rejecting.
getGasPriceRecommendationFails ==
    /\ ~gasCacheHit
    /\ advice' = errorAdvice("provider")
    /\ UNCHANGED <<gasPriceCache, gasPriceHistory>>
    /\ UNCHANGED <<priceServiceVars, calcVars, coordVars, supervisorVars,
                   classified>>

\* The monitoring interval (lines 253-283): getCurrentGasPrice, then only
\* logging.  With a fresh cache, or a failing provider, nothing changes.
monitorGasPrice ==
    /\ ~gasCacheHit
    /\ \E gasPrice \in GasPrices :
          /\ gasPriceCache' = [current |-> gasPrice, age |-> 0]
          /\ gasPriceHistory' = addToHistory(gasPriceHistory, gasPrice)
    /\ advice' = NoAdvice
    /\ UNCHANGED <<priceServiceVars, calcVars, coordVars, supervisorVars,
                   classified>>

TickGas ==
    /\ gasPriceCache.age < gasCacheTTL
    /\ gasPriceCache' = [gasPriceCache EXCEPT !.age = @ + 1]
    /\ advice' = NoAdvice
    /\ UNCHANGED gasPriceHistory
    /\ UNCHANGED <<priceServiceVars, calcVars, coordVars, supervisorVars,
                   classified>>

InitGas ==
    /\ classified = <<NotClassified, NotClassified>>
    /\ gasPriceCache = [current |-> NoPrice, age |-> gasCacheTTL]
    /\ gasPriceHistory = <<>>
    /\ advice = NoAdvice

NextGas ==
    \/ getGasPriceRecommendation
    \/ getGasPriceRecommendationFails
    \/ monitorGasPrice
    \/ TickGas

(***************************************************************************)
(* The specifications                                                      *)
(***************************************************************************)

Init ==
    /\ InitPrice /\ InitCalc /\ InitEstimate /\ InitCoord /\ InitSupervisor
    /\ InitGas

SpecPrice == Init /\ [][NextPrice]_vars

SpecRate == Init /\ [][NextRate]_vars

\* Timers fire when they are due, and the clock keeps advancing.
FairRate ==
    /\ WF_vars(TickRate)
    /\ WF_vars(rateLimitWindowTimer)
    /\ WF_vars(rateLimitIntervalTimer)

SpecRateLive == SpecRate /\ FairRate

SpecCalc == Init /\ [][NextCalc]_vars

SpecEstimate == Init /\ [][NextEstimate]_vars

SpecCoord == Init /\ [][NextCoord]_vars

\* The event loop runs every continuation that is ready and every timer
\* that is due, and time passes; when the chain includes a transaction is
\* not the program's to decide, so transactionSettles has no fairness.
FairCoord ==
    /\ WF_vars(TickCoord)
    /\ WF_vars(startChecksPass)
    /\ WF_vars(checksPass)
    /\ WF_vars(findNothing)
    /\ WF_vars(validateRejects)
    /\ WF_vars(executeAborts)
    /\ WF_vars(recovered)
    /\ WF_vars(wake)

SpecCoordLive == SpecCoord /\ FairCoord

SpecSupervisor == Init /\ [][NextSupervisor]_vars

SpecGasLevel == Init /\ [][NextGasLevel]_vars

SpecGas == Init /\ [][NextGas]_vars

(***************************************************************************)
(* Claims about the rate limiter                                           *)
(***************************************************************************)

\* C3: every call of rateLimit that is suspended (for the window to end, or
\* for the minimum interval) is eventually let through: it is never dropped
\* and never left waiting.
C3_RateLimitReturns ==
    \A c \in Callers :
        Waiting(caller[c]) ~> (caller[c].pc \in {"returned", "idle"})

\* C3 witness: a call that found the budget exhausted has waited for the
\* window to end and has returned.
C3_Witness ==
    \E c \in Callers : caller[c].pc = "returned" /\ caller[c].waited

\* C4 as claimed: the limiter never counts more than
\* maxApiRequestsPerMinute calls in one counting window, and lets any two
\* successive calls proceed at least minRequestInterval apart.
C4_BudgetAndSpacing ==
    /\ requestCount <= maxApiRequestsPerMinute
    /\ lastGap >= minRequestInterval

\* The two halves of C4, each on its own.
C4_Budget == requestCount <= maxApiRequestsPerMinute

C4_Spacing == lastGap >= minRequestInterval

(***************************************************************************)
(* Claims about the quotes                                                 *)
(***************************************************************************)

KeyOf(r) == CacheKey(r.dex, r.tokenIn, r.tokenOut)

Young(cache, key) == cache[key] # NoEntry /\ cache[key].age < cacheTTL

\* C5: a quote is answered from the cache, with no router query, exactly when
\* the entry of its key is younger than cacheTTL; otherwise the router is
\* queried and its answer is stored with age 0 and returned.
C5_CacheHitOrFetch ==
    [][\A s \in Slots :
        /\ (req'[s] # req[s] /\ req'[s].pc = "done" /\ req'[s].outcome = "cached")
              => /\ Young(priceCache, KeyOf(req'[s]))
                 /\ req'[s].price = priceCache[KeyOf(req'[s])].price
                 /\ ~req'[s].queried
                 /\ priceCache' = priceCache
        /\ (req'[s] # req[s] /\ req'[s].pc = "query")
              => ~Young(priceCache, KeyOf(req'[s]))
        /\ (req'[s] # req[s] /\ req'[s].pc = "done" /\ req'[s].outcome = "fresh")
              => /\ req[s].pc = "query"
                 /\ req'[s].queried
                 /\ priceCache'[KeyOf(req'[s])] =
                        [price |-> req'[s].price, age |-> 0]
      ]_vars

\* C5 witness: of two quotes issued together one was served from the cache
\* and the other, whose entry had expired, was fetched.
C5_Witness ==
    \E s, t \in Slots :
        /\ req[s].pc = "done" /\ req[s].outcome = "cached"
        /\ req[t].pc = "done" /\ req[t].outcome = "fresh"

\* C6: when the router query of a quote fails, the quote ends with the error
\* and the cache is exactly as it was; getPriceDifference never resolves on a
\* failed quote.
C6_FailureLeavesCache ==
    [][/\ \A s \in Slots :
             (req[s].pc = "query" /\ req'[s].pc = "done" /\ req'[s].outcome # "fresh")
                => /\ req'[s].outcome = "RouterError"
                   /\ req'[s].price = NoPrice
                   /\ priceCache' = priceCache
       /\ (diff'.status = "ok" /\ diff.status = "pending")
             => \A s \in Slots : ~IsError(req[s].outcome)
      ]_vars

\* C6 witness: a quote has ended with the router's error.
C6_Witness ==
    \E s \in Slots : req[s].pc = "done" /\ req[s].outcome = "RouterError"

BothQuoted ==
    \A s \in Slots : req[s].pc = "done" /\ req[s].outcome \in {"cached", "fresh"}

\* C7 as claimed: once both quotes of a getPriceDifference call are in, the
\* call returns both of them with a non-negative spread
\* floor(|uni - sushi| * 10000 / larger) and names the larger quote's
\* exchange, whatever the two quotes are.
C7_SpreadForAnyQuotes ==
    (diff.status \in {"ok", "error"} /\ BothQuoted) =>
        /\ diff.status = "ok"
        /\ diff.uniswapPrice = req[1].price
        /\ diff.sushiswapPrice = req[2].price
        /\ diff.percentageBps >= 0
        /\ LET larger == Max(req[1].price, req[2].price)
               smaller == Min(req[1].price, req[2].price)
           IN  /\ diff.percentageBps * larger <= (larger - smaller) * 10000
               /\ (larger - smaller) * 10000 < (diff.percentageBps + 1) * larger
        /\ diff.betterDEX = "uniswap" => req[1].price >= req[2].price
        /\ diff.betterDEX = "sushiswap" => req[2].price >= req[1].price

\* C7 restricted to quotes that are not both zero.
C7_SpreadForNonZeroQuotes ==
    (req[1].price > 0 \/ req[2].price > 0) => C7_SpreadForAnyQuotes

\* Two spellings name one address when they differ in letter case only.
SameAddress(a, b) == a = b \/ {a, b} = {"0xAb", "0xab"}

Identical(r) ==
    /\ r.tokenIn # Undefined
    /\ r.tokenOut # Undefined
    /\ SameAddress(r.tokenIn, r.tokenOut)

\* C8: a quote whose tokenIn and tokenOut are the same address (in any
\* spelling) ends at once with the identical-tokens error, without entering
\* the rate limiter and without a router query, and so does a
\* getPriceDifference call on such a pair.
C8_IdenticalTokensRejected ==
    /\ \A s \in Slots :
          (req[s].pc # "idle" /\ Identical(req[s]))
             => /\ req[s].pc = "done"
                /\ req[s].outcome = "IdenticalTokens"
                /\ ~req[s].queried
    /\ (diff.status # "none" /\ Identical(diff))
          => /\ diff.status \in {"pending", "error"}
             /\ diff.status = "error" => diff.error = "IdenticalTokens"

\* C8 witness: a getPriceDifference call on two spellings of one address has
\* failed with the identical-tokens error.
C8_Witness ==
    /\ diff.status = "error"
    /\ diff.error = "IdenticalTokens"
    /\ diff.tokenIn # diff.tokenOut
    /\ \A s \in Slots : req[s].outcome = "IdenticalTokens" /\ ~req[s].queried

(***************************************************************************)
(* Claims about the evaluation                                             *)
(***************************************************************************)

\* C9: the profit of a direction is the second swap's output minus the
\* amount borrowed and the fee, the fee being floor(flashLoanAmount * 5 /
\* 10000); it may be negative; borrowing 5 ETH (50000) and getting back
\* 5.10 ETH (51000) leaves exactly 0.0975 ETH (975).
C9_ProfitIsExact ==
    \A d \in DirIndex :
        find.dir[d].pc = "done" =>
            LET o == find.dir[d].opportunity
                out == find.dir[d].amountAfterSecondSwap
                fee == o.totalCost - find.flashLoanAmount
            IN  /\ fee >= 0
                /\ fee * 10000 <= find.flashLoanAmount * 5
                /\ find.flashLoanAmount * 5 < (fee + 1) * 10000
                /\ o.profit = out - (find.flashLoanAmount + fee)
                /\ (find.flashLoanAmount = 50000 /\ out = 51000) => o.profit = 975

\* C9 witness: with 5 ETH borrowed, one direction returns 5.10 ETH and
\* earns 0.0975 ETH, the other returns less than it costs and loses.
C9_Witness ==
    \E d, e \in DirIndex :
        /\ find.flashLoanAmount = 50000
        /\ find.dir[d].pc = "done"
        /\ find.dir[d].amountAfterSecondSwap = 51000
        /\ find.dir[d].opportunity.profit = 975
        /\ find.dir[e].pc = "done"
        /\ find.dir[e].opportunity.profit < 0

\* C32: the return on investment in basis points of an evaluated direction
\* is floor(profit * 10000 / flashLoanAmount), for a negative profit as for
\* a positive one: it is never rounded toward zero.
C32_RoiIsFloor ==
    \A d \in DirIndex :
        find.dir[d].pc = "done" =>
            LET o == find.dir[d].opportunity
            IN  /\ o.roiBps * find.flashLoanAmount <= o.profit * 10000
                /\ o.profit * 10000 < (o.roiBps + 1) * find.flashLoanAmount

Evaluated ==
    /\ find.pc = "returned"
    /\ \A d \in DirIndex : find.dir[d].pc = "done"

\* C10: once both directions are evaluated, the one selected is
\* SUSHI_TO_UNI if its profit is strictly larger than UNI_TO_SUSHI's, and
\* UNI_TO_SUSHI otherwise, equal profits included.
C10_LargerProfitFirstOnTie ==
    Evaluated =>
        LET uniToSushi == find.dir[1].opportunity
            sushiToUni == find.dir[2].opportunity
        IN  /\ uniToSushi.direction = "UNI_TO_SUSHI"
            /\ sushiToUni.direction = "SUSHI_TO_UNI"
            /\ sushiToUni.profit > uniToSushi.profit => find.best = sushiToUni
            /\ sushiToUni.profit <= uniToSushi.profit => find.best = uniToSushi
            /\ find.result \in {"null", find.best.direction}

\* C10 witness: both directions earn the same positive profit and
\* UNI_TO_SUSHI is returned.
C10_Witness ==
    /\ Evaluated
    /\ find.dir[1].opportunity.profit = find.dir[2].opportunity.profit
    /\ find.dir[1].opportunity.profit > 0
    /\ find.result = "UNI_TO_SUSHI"

\* The iteration has gone past the profit gate of checkAllPairs.
PastGate == cycle.pc \in {"validating", "executing", "submitted"}

\* C11: findArbitrageOpportunity returns an opportunity only if its
\* estimated profit is positive, so an iteration that is validating or
\* executing has a positive estimated profit.
C11_NonPositiveProfitDiscarded ==
    /\ (find.pc = "returned" /\ find.result # "null") => find.best.profit > 0
    /\ PastGate => (find.result # "null" /\ find.best.profit > 0)

\* C11 witness: both directions were evaluated, the better one earns
\* exactly nothing, null was returned and the iteration has ended.
C11_Witness ==
    /\ Evaluated
    /\ find.best.profit = 0
    /\ find.result = "null"
    /\ cycle.pc = "idle"
    /\ cycle.outcome = "noOpportunity"

\* C12: an iteration is validating or executing only if its estimated
\* profit is strictly above minProfit; at or below it the iteration ends.
C12_AboveMinProfitOnly ==
    PastGate => find.best.profit > minProfit

\* C12 witness: the better direction earns exactly minProfit and the
\* iteration has ended without validating.
C12_Witness ==
    /\ Evaluated
    /\ find.result # "null"
    /\ find.best.profit = minProfit
    /\ cycle.pc = "idle"
    /\ cycle.outcome = "noOpportunity"

\* C15: validateOpportunity never returns true at a gas price whose level
\* is extreme or critical, and no transaction is sent at such a price.
C15_NoSubmissionAtExtremeGas ==
    /\ cycle.validatedAt # NoPrice =>
           getGasPriceLevel(cycle.validatedAt) \notin {"extreme", "critical"}
    /\ cycle.sentAt # NoPrice =>
           getGasPriceLevel(cycle.sentAt) \notin {"extreme", "critical"}

\* How an iteration ends when nothing is wrong and nothing is to be done.
NonEvents == {"noOpportunity", "gasTooHigh", "noLiquidity", "rejected"}

\* C16: a step that ends an iteration with no profitable spread, a gas
\* price too high, insufficient liquidity or a rejection by
\* validateOpportunity leaves stats (its error count included) and the
\* consecutive-error counter as they were.
C16_NonEventsLeaveStats ==
    [][(cycle' # cycle /\ cycle'.pc = "idle" /\ cycle'.outcome \in NonEvents)
          => (stats' = stats /\ consecutiveErrors' = consecutiveErrors)]_vars

\* C16 witness: validateOpportunity has rejected an opportunity after an
\* earlier execution failed and was counted.
C16_Witness ==
    /\ cycle.pc = "idle"
    /\ cycle.outcome = "rejected"
    /\ stats.errors = "NaN"

\* A step in which one RPC call of the iteration, or one quote, fails.
FaultStep ==
    \/ cycle' # cycle /\ cycle'.outcome \in {"loopFault", "validateFault"}
    \/ find.pc = "quotes" /\ find'.pc = "returned"

\* C17: a step in which an RPC call or a quote of the iteration fails adds
\* one to the consecutive-error counter and counts one error in stats.
\* (stats.errors has no number to add to, so "counts" is read as "changes".)
C17_FaultCountedOnce ==
    [][FaultStep => /\ consecutiveErrors' = consecutiveErrors + 1
                    /\ stats'.errors # stats.errors]_vars

\* The check that has just run found what ends the iteration.
GateFails(c) ==
    \/ c.gate.name = "liquidity" /\ c.gate.reading = 0
    \/ c.gate.name = "gas" /\ c.gate.reading > maxGasPrice
    \/ c.gate.name = "balance" /\ c.gate.reading < minWalletBalance

\* C25: in every iteration the checks run in the order liquidity (exactly
\* when its interval has elapsed), gas price, wallet balance, and the pair
\* is evaluated only after the balance check; a check that fails ends the
\* iteration with no later check run and the pair not evaluated.
C25_GatesInOrder ==
    [][cycle' # cycle =>
          /\ cycle'.pc = "liquidity" => (cycle.pc = "idle" /\ liquidityDue')
          /\ cycle'.pc = "gas" =>
                 \/ cycle.pc = "idle" /\ ~liquidityDue'
                 \/ cycle.pc = "liquidity" /\ cycle'.gate.name = "liquidity"
          /\ cycle'.pc = "balance" =>
                 (cycle.pc = "gas" /\ cycle'.gate.name = "gas")
          /\ cycle'.pc = "pairs" =>
                 (cycle.pc = "balance" /\ cycle'.gate.name = "balance")
          /\ cycle'.pc = "finding" => cycle.pc = "pairs"
          /\ (cycle.pc \in {"liquidity", "gas", "balance"} /\ GateFails(cycle'))
                 => (cycle'.pc = "idle" /\ find'.pc = "idle")
      ]_vars

\* C25 witness: the liquidity check was not due, the gas price read was
\* above maxGasPrice, and the iteration has ended without the balance
\* being read or the pair evaluated.
C25_Witness ==
    /\ cycle.pc = "idle"
    /\ cycle.outcome = "gasTooHigh"
    /\ cycle.gate.name = "gas"
    /\ cycle.gate.reading > maxGasPrice
    /\ ~liquidityDue
    /\ find.pc = "idle"

\* C36 as claimed: after checkAaveLiquidity has reported insufficient
\* liquidity, no pair is evaluated and nothing is submitted before a later
\* liquidity check: the iteration that follows the report goes on to no
\* gate but the liquidity check, or ends at the block test.
C36_NoEvaluationAfterInsufficientLiquidity ==
    [][(/\ cycle.pc = "idle"
        /\ cycle.outcome = "noLiquidity"
        /\ cycle'.pc # "idle")
           => cycle'.pc = "liquidity"
      ]_vars

\* The total fee of the iteration whose gas price and gas estimate c holds.
FeeQuoted(c) ==
    c.gasEstimate * c.quotedAt + flashLoanFee(find.best.flashLoanAmount)

IsCount(x) == x \notin {"undefined", "NaN"}

IncreasedByOne(before, after) ==
    /\ IsCount(before)
    /\ IsCount(after)
    /\ after = before + 1

\* C27 as claimed: a receipt with success status adds one to
\* successfulArbitrages and the opportunity's profit to totalProfit; a
\* receipt with failure status adds exactly one to the error count and
\* leaves both unchanged; successfulArbitrages never exceeds
\* totalExecutions.
C27_ReceiptAccounting ==
    [][(/\ cycle.pc = "submitted"
        /\ stats'.totalExecutions = stats.totalExecutions + 1)
           => (/\ cycle'.outcome = "succeeded" =>
                     /\ stats'.successfulArbitrages = stats.successfulArbitrages + 1
                     /\ stats'.totalProfit = stats.totalProfit + find.best.profit
               /\ cycle'.outcome # "succeeded" =>
                     /\ IncreasedByOne(stats.errors, stats'.errors)
                     /\ stats'.successfulArbitrages = stats.successfulArbitrages
                     /\ stats'.totalProfit = stats.totalProfit
               /\ stats'.successfulArbitrages <= stats'.totalExecutions)
      ]_vars

(***************************************************************************)
(* Claims about the execution loop                                         *)
(***************************************************************************)

InFlight == {l \in Loops : loop[l].pc = "inflight"}

\* C1 as claimed: at no time are two arbitrage transactions submitted and
\* not yet confirmed.
C1_OneTransactionInFlight == Cardinality(InFlight) <= 1

\* The second half of C1: a cycle enters findArbitrageOpportunity only if
\* the previous execution began at least minExecutionInterval ago;
\* otherwise it is skipped.
C1_SpacingSkips ==
    [][\A l \in Loops :
          (loop[l].pc = "checks" /\ loop'[l].pc = "find")
              => sinceExec >= minExecutionInterval
      ]_vars

\* The monitorArbitrageOpportunities() calls that have not returned.
LiveLoops == {l \in Loops : loop[l].pc \notin {"off", "killed", "abandoned"}}

\* C33 as claimed: whatever start, stop and restart calls are made, at most
\* one monitorArbitrageOpportunities() loop is live at any time.
C33_OneLoopLive == Cardinality(LiveLoops) <= 1

\* C37 as claimed: isRunning is true only when the initial checks of
\* start() passed: a start() that ends with a check throwing, and so
\* without launching a loop, leaves isRunning false.
C37_FailedStartNotRunning ==
    [][(starting /\ ~starting' /\ loop' = loop) => ~isRunning']_vars

\* C21 as claimed: when the engine is stopped, by stop() or by a shutdown
\* signal, while a loop is waiting for its transaction to confirm, that
\* wait runs to its end and its outcome is recorded; no loop is ever cut
\* off inside tx.wait().
C21_ConfirmationNeverAbandoned ==
    \A l \in Loops : loop[l].pc # "abandoned"

\* C22 as claimed: every loop that waits for a confirmation eventually
\* leaves that wait, also when the transaction is never included.
C22_ConfirmingEventuallyEnds ==
    \A l \in Loops : (loop[l].pc = "inflight") ~> (loop[l].pc # "inflight")

\* C28 as claimed: with block-based execution on, the pair is evaluated at
\* most once for a block number: an iteration that reads the block number
\* of the latest evaluation runs no check and no evaluation, it only waits
\* for the next block (or fails reading the block number).
C28_OneEvaluationPerBlock ==
    [][\A l \in Loops :
          (/\ blockBasedExecution
           /\ loop[l].pc = "checks"
           /\ loop'[l] # loop[l]
           /\ blocks.evaluatedNewest)
              => (/\ loop'[l].pc \in {"sleep", "killed"}
                  /\ loop'[l].timer \in {0, blockWait, errorSleep}
                  /\ blocks' = blocks)
      ]_vars

\* C20: from stop() until start() is next called (isRunning is false
\* exactly then) no loop begins an iteration, so a loop that was inside an
\* iteration when stop() was called finishes at most that one; and only a
\* call of start() ends the stopped state.
C20_NoNewCycleWhileStopped ==
    [][/\ \A l \in Loops :
             (loop[l].pc # "checks" /\ loop'[l].pc = "checks") => isRunning
       /\ (~isRunning /\ isRunning') => (~starting /\ starting')]_vars

\* C20 witness: stop() has been called and the sleep of a loop is over.
C20_Witness ==
    /\ ~isRunning
    /\ ~starting
    /\ \E l \in Loops : loop[l].pc = "sleep" /\ loop[l].timer = 0

(***************************************************************************)
(* Claims about the supervisor                                             *)
(***************************************************************************)

\* C2 as claimed: a restart begins exactly at the fifth consecutive failed
\* health re-check: it has not begun after fewer, and it has begun once
\* there are five.
C2_RestartExactlyAtFive ==
    /\ botPc = "restartSleep" => healthFailStreak = maxConsecutiveErrors
    /\ botPc = "running" => healthFailStreak < maxConsecutiveErrors

\* The halves of C2, each on its own.
C2_NeverAfterFewer ==
    botPc = "restartSleep" => healthFailStreak >= maxConsecutiveErrors

C2_NeverLater ==
    botPc = "running" => healthFailStreak < maxConsecutiveErrors

\* C34 as claimed: once stop() has been called from outside, the engine
\* stays stopped until start() is called: no health re-check counts a
\* failure while it is stopped, and it leaves the stopped state only by
\* start(), never by a restart of the health interval.
C34_StoppedUntilStart ==
    [][botPc = "stopped" =>
          /\ botPc' \in {"stopped", "healthChecks"}
          /\ healthFailStreak' = healthFailStreak
          /\ isRunning' = isRunning]_vars

\* C35 as claimed: a restart leaves as many background intervals (gas
\* sampling, health re-check, stats reporting) as the first start
\* registered, one set, and the consecutive-failure counter is 0 when the
\* restart completes.
C35_RestartKeepsOneSetOfIntervals ==
    [][(botPc = "starting" /\ botPc' = "running" /\ startup.byRestart) =>
          /\ healthMonitors' = 1
          /\ consecutiveErrors' = 0]_vars

\* C39 as claimed: while the desktop app's bot runs, the totalExecutions
\* and successfulArbitrages it reports (getBotStatus returns botStats) are
\* the numbers of receipts and of successes the service has counted since
\* the start.
C39_ReportedStatsAgree ==
    app.pc = "running" =>
        /\ app.botStats.totalExecutions = stats.totalExecutions
        /\ app.botStats.successfulArbitrages = stats.successfulArbitrages

\* C18: the health checks run one after the other in the order of the
\* array; start() goes on to start the service only after all seven have
\* run with at most 2 failures, and once all have run its next step is the
\* fatal exit if more than 2 failed and the start of the service otherwise.
C18_AbortsAboveTwoFailures ==
    /\ [](botPc \in {"starting", "running"} =>
              /\ startup.checked = 7
              /\ startup.failedChecks <= 2)
    /\ [][(botPc = "healthChecks" /\ botPc' # botPc) =>
              /\ startup.checked = 7
              /\ botPc' = IF startup.failedChecks > 2 THEN "exited"
                                                      ELSE "starting"]_vars
    /\ [][startup'.checked # startup.checked =>
              startup'.checked \in {0, startup.checked + 1}]_vars

\* C18 witness: the service is being started after exactly 2 of the 7
\* checks failed.
C18_Witness ==
    /\ botPc = "starting"
    /\ startup.checked = 7
    /\ startup.failedChecks = 2

\* C19: neither the bot nor the desktop app is ever running while the
\* contract's owner is another account than the wallet.
C19_NeverRunningUnderForeignOwner ==
    /\ botPc = "running" => startup.owner = "0xAb"
    /\ app.pc = "running" => app.owner = "0xAb"

\* C19 witness: with another account owning the contract the health checks
\* let the start through with no failure at all, and the start then ended
\* in the fatal exit.
C19_Witness ==
    /\ botPc = "exited"
    /\ startup.owner = "0xCd"
    /\ startup.checked = 7
    /\ startup.failedChecks = 0

\* restart() is under way: it has stopped the service and sleeps, or the
\* start() it calls is running (the intervals of an earlier start exist).
Restarting ==
    /\ healthMonitors > 0
    /\ botPc \in {"restartSleep", "healthChecks", "starting"}

C24_StartResetsEveryCounter ==
    [][(app.pc = "starting" /\ app'.pc = "running") =>
          /\ app'.botStats.totalExecutions = 0
          /\ app'.botStats.successfulArbitrages = 0
          /\ app'.botStats.totalProfit = 0
          /\ app'.botStats.errors = 0
          /\ app'.botStats.consecutiveErrors = 0
      ]_vars

(***************************************************************************)
(* Claims about the gas service                                            *)
(***************************************************************************)

Rank(level) ==
    CASE level = "low" -> 0
      [] level = "medium" -> 1
      [] level = "high" -> 2
      [] level = "extreme" -> 3
      [] level = "critical" -> 4

\* C13: the level never falls as the price rises; across each threshold
\* (10, 30, 50, 100 gwei) it rises by exactly one level between the price
\* just below and the price at the threshold; and the price at a threshold
\* is in the higher level.
C13_GasLevelsClosedOpen ==
    LET a == classified[1]
        b == classified[2]
    IN  a.level # "none" =>
          /\ a.price <= b.price => Rank(a.level) <= Rank(b.level)
          /\ (b.price = a.price + 1 /\ b.price \in {10, 30, 50, 100})
                 => Rank(b.level) = Rank(a.level) + 1
          /\ a.price = 0 => a.level = "low"
          /\ a.price = 10 => a.level = "medium"
          /\ a.price = 30 => a.level = "high"
          /\ a.price = 50 => a.level = "extreme"
          /\ a.price = 100 => a.level = "critical"

\* C13 witness: 49 gwei was classified high and 50 gwei extreme.
C13_Witness ==
    /\ classified[1] = [price |-> 49, level |-> "high"]
    /\ classified[2] = [price |-> 50, level |-> "extreme"]

\* The rule of the recommendation, over what the call returned: its level,
\* its trend and its change in hundredths of a percent.
RuledRecommendation ==
    IF \/ advice.level \in {"extreme", "critical"}
       \/ advice.trend = "increasing" /\ advice.change > 1000
    THEN "wait"
    ELSE IF advice.level = "high" /\ advice.trend = "increasing"
         THEN "caution"
         ELSE "proceed"

\* C14 as claimed: every recommendation returned is wait when the level is
\* extreme or critical or the trend is increasing by more than 10 %,
\* caution when the level is high and the trend increasing, proceed
\* otherwise; it is always one of proceed, caution, wait.
C14_AlwaysProceedCautionWait ==
    advice.recommendation # "none" =>
        /\ advice.recommendation \in {"proceed", "caution", "wait"}
        /\ advice.recommendation = RuledRecommendation

\* C14 as amended: when the gas price is obtained and the trend computed,
\* the recommendation follows the rule and is one of proceed, caution,
\* wait; when the provider fails or the trend computation throws, and only
\* then, it is "error".
C14_RuleOrError ==
    advice.recommendation # "none" =>
        IF advice.cause # "none"
        THEN advice.recommendation = "error"
        ELSE /\ advice.recommendation \in {"proceed", "caution", "wait"}
             /\ advice.recommendation = RuledRecommendation

\* C14 witness: at a high level with the trend increasing by exactly 10 %
\* the recommendation was caution.
C14_Witness ==
    /\ advice.recommendation = "caution"
    /\ advice.level = "high"
    /\ advice.trend = "increasing"
    /\ advice.change = 1000
\* C29: the history never holds more than maxHistorySize samples (100 in
\* the program); every sampling appends its price at the end, and when the
\* history is full the oldest sample is the one that goes, the others
\* keeping their order.
C29_HistoryBoundedOldestEvicted ==
    [][/\ Len(gasPriceHistory') <= maxHistorySize
       /\ gasPriceHistory' # gasPriceHistory =>
              \E gasPrice \in GasPrices :
                  gasPriceHistory' =
                      IF Len(gasPriceHistory) < maxHistorySize
                      THEN gasPriceHistory \o <<gasPrice>>
                      ELSE SubSeq(gasPriceHistory, 2, Len(gasPriceHistory))
                               \o <<gasPrice>>
      ]_vars

\* C29 witness: a full history whose samples differ, so that which one is
\* evicted and in what order the rest stay can be told.
C29_Witness ==
    /\ Len(gasPriceHistory) = maxHistorySize
    /\ gasPriceHistory[1] # gasPriceHistory[2]
    /\ gasPriceHistory[2] # gasPriceHistory[maxHistorySize]

\* The integer mean of history[lo .. hi].
MeanOf(history, lo, hi) ==
    TruncDiv(Sum(SubSeq(history, lo, hi)), hi - lo + 1)

C31_GasLimitSingleBuffer ==
    \A i \in {1, 2} :
        (gasQuotes[i].outcome = "sent" /\ gasQuotes[i].raw >= 0)
            => gasQuotes[i].gasLimit = (gasQuotes[i].raw * 120) \div 100

PassesGasLimitCheck(q) == q.outcome \in {"feeOverLimit", "sent"}

\* C38: acceptance of a gas estimate is monotone: when a raw estimate
\* passes the gas-limit check of executeArbitrage, every smaller raw
\* estimate passes it too, all else (the gas price, the amount) being equal.
C38_AcceptanceMonotone ==
    LET a == gasQuotes[1]
        b == gasQuotes[2]
    IN  (/\ a.raw >= 0 /\ b.raw >= 0
         /\ a.gasPrice = b.gasPrice
         /\ PassesGasLimitCheck(a)
         /\ b.raw < a.raw)
            => PassesGasLimitCheck(b)

====
